---- MODULE Spec2Model ----
(***************************************************************************)
(* HealthyBitesAI / Food Doctor.                                           *)
(*                                                                         *)
(* State machines of the repository:                                       *)
(*   SpecUI    - the client pages (Home, IngredientsPage, AnalysisPage),   *)
(*               their load effects, the requests in flight and the two    *)
(*               caches (result context and window.__FD_CACHE__);          *)
(*   SpecParse - parseAnalysisText of AnalysisDisplay.tsx applied to       *)
(*               bounded texts;                                            *)
(*   SpecEntry - the production entrypoint script and its two children;    *)
(*   SpecConfig - lib/config (getBaseUrl, getApiUrl) and the fetch calls;  *)
(*   SpecDisplay - the sections AnalysisDisplay renders from its props;    *)
(*   SpecRating - extractHealthRating of AnalysisDisplay.tsx;              *)
(*   SpecLoading - the intervals of LoadingAnimation.                      *)
(* JavaScript values are records tagged by the field t, so that values of  *)
(* different JavaScript types can be compared.  Strings that the code      *)
(* inspects (ids, texts) are sequences of tokens.                          *)
(***************************************************************************)
EXTENDS Integers, Sequences, FiniteSets, TLC

-----------------------------------------------------------------------------
(* Bounds *)

\* effect runs plus handler calls (handleSearch, handleBarcodeSearch) in a behaviour
MaxOps == 4

-----------------------------------------------------------------------------
(* JavaScript values *)

\* null / undefined
NoneV == [t |-> "null"]

\* an array
Arr(items) == [t |-> "array", items |-> items]

\* a non-empty string, given as its sequence of tokens
Str(s) == [t |-> "string", s |-> s]

\* route ids: one made of digits only, one not
Ids == {<<"7">>, <<"x">>}

Digits == {"0", "1", "2", "3", "4", "5", "6", "7", "8", "9"}

\* /^\d+$/.test(id)
IsDigits(id) == Len(id) > 0 /\ \A i \in 1..Len(id) : id[i] \in Digits

\* the JSON object GET /api/v1/product/{id} answers with; image_url "" is a missing image
Product(id, img) == [t |-> "product", id |-> id, image_url |-> img]

\* bodies of an OK answer of the product endpoint for id
ProductBodies(id) == {Product(id, <<"srv">>), Product(id, <<>>)}

\* image_front_url || image_small_url of the Open Food Facts answer for id
OffImage(id) == <<"off">> \o id

\* bodies of an OK answer of the analyze endpoint for id, as res.json() gives
\* them: an object with an analysis_sections array (possibly empty), an
\* object without one, a plain string (possibly empty), or null
AnalyzeBodies(id) ==
    { [t |-> "response", analysis_sections |-> Arr(<<id>>)],
      [t |-> "response", analysis_sections |-> Arr(<<>>)],
      [t |-> "response", analysis_sections |-> NoneV],
      Str(id), Str(<<>>), NoneV }

\* err.message of the Error thrown on a non-OK answer, and of a rejected fetch
FailMessages(kind) ==
    { Str(IF kind = "product" THEN <<"Failed to fetch ingredients">>
                              ELSE <<"Failed to fetch analysis">>),
      Str(<<"Failed to fetch">>) }

\* JavaScript truthiness of a cached value: objects and arrays (empty ones too)
\* and non-empty strings are truthy
Truthy(v) == v # NoneV /\ v # [t |-> "string", s |-> <<>>]

\* String(cached) of an object that is neither array nor string
ObjectString == Str(<<"[object Object]">>)

\* key of the home page's entry in the result context
LastSearchResults == <<"lastSearchResults">>

\* key the restore effect of the home page reads; no code writes it
LastQuery == <<"lastQuery">>

Keys == Ids \cup {LastSearchResults, LastQuery}

\* whitespace tokens (\s)
Space == {" ", "\n"}

RECURSIVE TrimLeft(_)
TrimLeft(s) == IF s # <<>> /\ Head(s) \in Space THEN TrimLeft(Tail(s)) ELSE s

RECURSIVE TrimRight(_)
TrimRight(s) ==
    IF s # <<>> /\ s[Len(s)] \in Space THEN TrimRight(SubSeq(s, 1, Len(s) - 1)) ELSE s

\* String.prototype.trim
Trim(s) == TrimRight(TrimLeft(s))

\* what the user types into the search box: a product name, or blanks only
Queries == {<<"milk">>, <<" ">>}

\* what the barcode modal hands to onSearch
Barcodes == {<<"7">>}

\* data.products of an OK search answer for query q (NoneV: the field is missing)
SearchBodies(q) == {Arr(<<q>>), Arr(<<>>), NoneV}

\* bodies of an OK barcode answer: a product with product_name and id, or not
BarcodeBodies(b) == {Product(b, <<>>), NoneV}

-----------------------------------------------------------------------------
VARIABLES
    page,       \* the page component that is mounted: "home", "ingredients", "analysis"
    inst,       \* number of the mounted component instance
    routeId,    \* params.id of the mounted page (<<>> on home)
    liveRun,    \* the origin whose closure has mounted = true (0: none)
    runCtr,     \* origins so far: effect runs and handler calls
    ing,        \* IngredientsPage state: data, loading, error
    ana,        \* AnalysisPage state: analysisText, analysisSections, loading, error
    home,       \* Home state: searchQuery, searchResults, loading, hasSearched, lastSearchType
    cache,      \* the result context's cache
    fdCache,    \* window.__FD_CACHE__
    reqs,       \* fetches in flight, each with the closure that awaits it
    ev,         \* history: the last step of the client (operation, id, origin, value)
    issued,     \* history: number of backend requests issued so far
    text,       \* SpecParse: the text given to parseAnalysisText
    sections,   \* SpecParse: the Section list returned (titles and contents)
    parsed,     \* SpecParse: parseAnalysisText has returned
    env,        \* SpecEntry: value of the container's PORT variable
    pc,         \* SpecEntry: the script's position
    proc,       \* SpecEntry: state of the two child processes
    port,       \* SpecEntry: port each child was started on
    launched,   \* SpecEntry: children in the order they were launched
    trapSet,    \* SpecEntry: trap cleanup TERM INT QUIT has been executed
    killed,     \* SpecEntry: children a kill has been sent to
    sigs,       \* SpecEntry: signals delivered to the script so far
    status,     \* SpecEntry: exit status of the script (-1: none yet)
    window,     \* SpecConfig: the code runs in a browser (typeof window !== 'undefined')
    apiEnv,     \* SpecConfig: process.env.NEXT_PUBLIC_API_URL
    built,      \* SpecConfig: the last call of getApiUrl, the BASE_URL it read and the URL it returned
    fetched,    \* SpecConfig: the last backend fetch a call site made (method and URL)
    props,      \* SpecDisplay: analysisText and analysisSections given to AnalysisDisplay
    shown,      \* SpecDisplay: the sections AnalysisDisplay renders (NoneV: not rendered)
    arg,        \* SpecRating: the argument given to extractHealthRating
    rating,     \* SpecRating: the value extractHealthRating returned (Pending: not called)
    progress,   \* SpecLoading: progress of LoadingAnimation, in sixteenths of a percent
    currentStage, \* SpecLoading: currentStage of LoadingAnimation
    running,    \* SpecLoading: the intervals of LoadingAnimation are set
    ticks,      \* SpecLoading, history: callbacks of progressInterval so far
    stageTicks, \* SpecLoading, history: callbacks of stageInterval so far
    was         \* SpecLoading, history: progress and currentStage before the last callback

uiVars == <<page, inst, routeId, liveRun, runCtr, ing, ana, home, cache, fdCache, reqs, ev, issued>>
parseVars == <<text, sections, parsed>>
entryVars == <<env, pc, proc, port, launched, trapSet, killed, sigs, status>>
configVars == <<window, apiEnv, built, fetched>>
displayVars == <<props, shown>>
ratingVars == <<arg, rating>>
loadingVars == <<progress, currentStage, running, ticks, stageTicks, was>>
vars == <<uiVars, parseVars, entryVars, configVars, displayVars, ratingVars, loadingVars>>
notUI == <<parseVars, entryVars, configVars, displayVars, ratingVars, loadingVars>>
notParse == <<uiVars, entryVars, configVars, displayVars, ratingVars, loadingVars>>
notEntry == <<uiVars, parseVars, configVars, displayVars, ratingVars, loadingVars>>
notConfig == <<uiVars, parseVars, entryVars, displayVars, ratingVars, loadingVars>>
notDisplay == <<uiVars, parseVars, entryVars, configVars, ratingVars, loadingVars>>
notRating == <<uiVars, parseVars, entryVars, configVars, displayVars, loadingVars>>
notLoading == <<uiVars, parseVars, entryVars, configVars, displayVars, ratingVars>>

-----------------------------------------------------------------------------
(* Component state after useState *)

IngInit == [data |-> NoneV, loading |-> TRUE, error |-> NoneV]

AnaInit == [analysisText |-> NoneV, analysisSections |-> Arr(<<>>),
            loading |-> TRUE, error |-> NoneV]

HomeInit == [searchQuery |-> <<>>, searchResults |-> Arr(<<>>), loading |-> FALSE,
             hasSearched |-> FALSE, lastSearchType |-> "text"]

\* the client right after the first render of Home: nothing cached, nothing in flight
InitClient ==
    /\ page = "home"
    /\ inst = 1
    /\ routeId = <<>>
    /\ liveRun = 0
    /\ runCtr = 1
    /\ ing = IngInit
    /\ ana = AnaInit
    /\ home = HomeInit
    /\ cache = [k \in Keys |-> NoneV]
    /\ fdCache = [k \in Keys |-> NoneV]
    /\ reqs = {}
    /\ ev = [op |-> "init", id |-> <<>>, run |-> 1, val |-> NoneV]
    /\ issued = 0

\* parseAnalysisText not called
IdleParse == text = <<>> /\ sections = <<>> /\ parsed = FALSE

\* the entrypoint not started
IdleEntry ==
    /\ env = NoneV /\ pc = "off" /\ proc = <<>> /\ port = <<>> /\ launched = <<>>
    /\ trapSet = FALSE /\ killed = {} /\ sigs = 0 /\ status = -1

\* lib/config not used
IdleConfig == window = TRUE /\ apiEnv = NoneV /\ built = NoneV /\ fetched = NoneV

\* AnalysisDisplay not rendered
IdleDisplay == props = NoneV /\ shown = NoneV

\* the value of rating before extractHealthRating is called
Pending == [t |-> "pending"]

\* extractHealthRating not called
IdleRating == arg = NoneV /\ rating = Pending

\* LoadingAnimation not rendered
IdleLoading ==
    /\ progress = 0 /\ currentStage = 0 /\ running = FALSE
    /\ ticks = 0 /\ stageTicks = 0 /\ was = [progress |-> 0, currentStage |-> 0]

\* a fetch in flight: kind of request, id (or query, or barcode), the origin
\* (effect run or handler call) whose closure awaits it, the component instance
\* whose setters the closure holds, d (the product the image lookup was started
\* for) and settled (the Promise.race it takes part in is already settled)
Req(kind, id, run, i, d) ==
    [kind |-> kind, id |-> id, run |-> run, inst |-> i, d |-> d, settled |-> FALSE]

\* the last step: operation, the id (query, barcode) it was for, its origin and
\* the value it carried (response body or error message)
Ev(op, id, run, val) == [op |-> op, id |-> id, run |-> run, val |-> val]

\* the closure's flag `mounted`: true until the cleanup of its effect run
Mounted(r) == r.run = liveRun

\* a setter called by r's callbacks changes state only of a live instance
Live(r) == r.inst = inst

\* requests that go to the backend (the image lookup goes to Open Food Facts)
Backend(rs) == {r \in rs : r.kind # "image"}

\* what each page renders
IngView == IF ing.loading THEN "loading"
           ELSE IF ing.error # NoneV \/ ing.data = NoneV THEN "error" ELSE "product"

AnaView == IF ana.loading THEN "loading"
           ELSE IF ana.error # NoneV
                   \/ (~Truthy(ana.analysisText) /\ Len(ana.analysisSections.items) = 0)
                THEN "failed" ELSE "analysis"

\* setCacheEntry(key, value) of the result context
SetCacheEntry(c, key, value) == [c EXCEPT ![key] = value]

\* window.__FD_CACHE__ = { ...window.__FD_CACHE__ || {}, [id]: value }
SetFdCache(c, key, value) == [c EXCEPT ![key] = value]

-----------------------------------------------------------------------------
(* IngredientsPage *)

\* the cache is not consulted
IngredientsEffect_NoCache(s, id, run, i) ==
    [st |-> s, out |-> {Req("product", id, run, i, NoneV)}]

\* the load effect run with params.id = id on an instance in state s, as origin
\* run of instance i: the cached entry is used when there is one, else the
\* product is fetched.  st is the state after the effect, out the fetch issued.
IngredientsEffect(s, id, run, i) ==
    IF Truthy(cache[id])
    THEN [st |-> [s EXCEPT !.data = cache[id], !.loading = FALSE], out |-> {}]
    ELSE [st |-> s, out |-> {Req("product", id, run, i, NoneV)}]

\* the image lookup is started for every product without image_url
NeedsImage_AnyId(d, id) == d.image_url = <<>>

\* the image lookup is started only for a product without image_url and an id
\* made of digits
NeedsImage(d, id) == d.image_url = <<>> /\ IsDigits(id)

\* .then(async (d) => ...) without the trailing finally: state of the page after it
IngredientsThen(r, d) ==
    IF Mounted(r) /\ Live(r) THEN [ing EXCEPT !.data = d] ELSE ing

\* the error is swallowed
IngredientsCatch_Swallow(s, r, msg) == s

\* .catch(err => { setError(err.message); })
IngredientsCatch(s, r, msg) ==
    IF Live(r) THEN [s EXCEPT !.error = msg] ELSE s

\* .finally(() => { if (mounted) setLoading(false); })
IngredientsFinally(s, r) ==
    IF Mounted(r) /\ Live(r) THEN [s EXCEPT !.loading = FALSE] ELSE s

\* { ...v, image_url: img }: a product keeps its other fields; any other value
\* (an array or a string taken from the cache) becomes an object around it
WithImage(v, img) ==
    IF v.t = "product" THEN [v EXCEPT !.image_url = img]
    ELSE [t |-> "object", of |-> v, image_url |-> img]

\* setData((prev) => ({ ...(prev || d), image_url: img })) of the image lookup
IngredientsImage(s, r, img) ==
    IF Live(r)
    THEN [s EXCEPT !.data = WithImage(IF Truthy(s.data) THEN s.data ELSE r.d, img)]
    ELSE s

\* navigation to /ingredients/id: a new instance is mounted and runs the effect
MountIngredients(id) ==
    /\ runCtr < MaxOps
    /\ LET e == IngredientsEffect(IngInit, id, runCtr + 1, inst + 1) IN
        /\ ing' = e.st
        /\ reqs' = reqs \cup e.out
        /\ issued' = issued + Cardinality(Backend(e.out))
    /\ page' = "ingredients"
    /\ inst' = inst + 1
    /\ routeId' = id
    /\ runCtr' = runCtr + 1
    /\ liveRun' = runCtr + 1
    /\ ana' = AnaInit
    /\ home' = HomeInit
    /\ ev' = Ev("MountIngredients", id, runCtr + 1, NoneV)
    /\ UNCHANGED <<notUI, cache, fdCache>>

\* the effect's cleanup and its next run on the same instance: params.id
\* changed, or the development double run of reactStrictMode (same id)
RerunIngredients(id) ==
    /\ page = "ingredients"
    /\ runCtr < MaxOps
    /\ LET e == IngredientsEffect(ing, id, runCtr + 1, inst) IN
        /\ ing' = e.st
        /\ reqs' = reqs \cup e.out
        /\ issued' = issued + Cardinality(Backend(e.out))
    /\ routeId' = id
    /\ runCtr' = runCtr + 1
    /\ liveRun' = runCtr + 1
    /\ ev' = Ev("RerunIngredients", id, runCtr + 1, NoneV)
    /\ UNCHANGED <<notUI, page, inst, ana, home, cache, fdCache>>

\* GET /api/v1/product/{id} answers OK with body d
ProductOk(r, d) ==
    /\ r \in reqs /\ r.kind = "product"
    /\ d \in ProductBodies(r.id)
    /\ ing' = IngredientsFinally(IngredientsThen(r, d), r)
    /\ cache' = IF Mounted(r) THEN SetCacheEntry(cache, r.id, d) ELSE cache
    /\ fdCache' = IF Mounted(r) THEN SetFdCache(fdCache, r.id, d) ELSE fdCache
    /\ reqs' = (reqs \ {r}) \cup
               (IF Mounted(r) /\ NeedsImage(d, r.id)
                THEN {Req("image", r.id, r.run, r.inst, d)} ELSE {})
    /\ ev' = Ev("ProductOk", r.id, r.run, d)
    /\ UNCHANGED <<notUI, issued, page, inst, routeId, liveRun, runCtr, ana, home>>

\* a retry: the failure handlers fetch the product again
ProductFailed_Retry(s, r, msg) ==
    [st |-> IngredientsFinally(IngredientsCatch(s, r, msg), r),
     out |-> {Req("product", r.id, r.run, r.inst, NoneV)}]

\* the rejected chain: catch, then finally; no fetch is issued
ProductFailed(s, r, msg) ==
    [st |-> IngredientsFinally(IngredientsCatch(s, r, msg), r), out |-> {}]

\* GET /api/v1/product/{id} answers non-OK, or the fetch rejects
ProductFail(r, msg) ==
    /\ r \in reqs /\ r.kind = "product"
    /\ msg \in FailMessages("product")
    /\ LET h == ProductFailed(ing, r, msg) IN
        /\ ing' = h.st
        /\ reqs' = (reqs \ {r}) \cup h.out
        /\ issued' = issued + Cardinality(Backend(h.out))
    /\ ev' = Ev("ProductFail", r.id, r.run, msg)
    /\ UNCHANGED <<notUI, page, inst, routeId, liveRun, runCtr, ana, home, cache, fdCache>>

\* Open Food Facts answers with an image
ImageOk(r) ==
    /\ r \in reqs /\ r.kind = "image"
    /\ ing' = IngredientsImage(ing, r, OffImage(r.id))
    /\ reqs' = reqs \ {r}
    /\ ev' = Ev("ImageOk", r.id, r.run, NoneV)
    /\ UNCHANGED <<notUI, issued, page, inst, routeId, liveRun, runCtr, ana, home, cache, fdCache>>

\* Open Food Facts answers without an image, or the lookup fails
ImageNone(r) ==
    /\ r \in reqs /\ r.kind = "image"
    /\ reqs' = reqs \ {r}
    /\ ev' = Ev("ImageNone", r.id, r.run, NoneV)
    /\ UNCHANGED <<notUI, issued, page, inst, routeId, liveRun, runCtr, ing, ana, home, cache, fdCache>>

-----------------------------------------------------------------------------
(* AnalysisPage *)

\* a cached string is treated like any other non-array value
UseCached_StringAsObject(s, cached) ==
    IF cached.t = "array" THEN [s EXCEPT !.analysisSections = cached, !.loading = FALSE]
    ELSE IF cached.t = "response" /\ cached.analysis_sections.t = "array"
         THEN [s EXCEPT !.analysisSections = cached.analysis_sections, !.loading = FALSE]
    ELSE [s EXCEPT !.analysisText = ObjectString, !.loading = FALSE]

\* the branches of tryUseCache on a cached value
UseCached(s, cached) ==
    IF cached.t = "array" THEN [s EXCEPT !.analysisSections = cached, !.loading = FALSE]
    ELSE IF cached.t = "string" THEN [s EXCEPT !.analysisText = cached, !.loading = FALSE]
    ELSE IF cached.t = "response" /\ cached.analysis_sections.t = "array"
         THEN [s EXCEPT !.analysisSections = cached.analysis_sections, !.loading = FALSE]
    ELSE [s EXCEPT !.analysisText = ObjectString, !.loading = FALSE]

\* tryUseCache: window.__FD_CACHE__ first, then the context cache
TryUseCache(s, id) ==
    IF Truthy(fdCache[id]) THEN [hit |-> TRUE, st |-> UseCached(s, fdCache[id])]
    ELSE IF Truthy(cache[id]) THEN [hit |-> TRUE, st |-> UseCached(s, cache[id])]
    ELSE [hit |-> FALSE, st |-> s]

\* the load effect of the analysis page
AnalysisEffect(s, id, run, i) ==
    LET c == TryUseCache(s, id) IN
    IF c.hit THEN [st |-> c.st, out |-> {}]
    ELSE [st |-> s, out |-> {Req("analyze", id, run, i, NoneV)}]

\* a plain-string body is not stored
AnalysisStored_OnlySections(body) ==
    IF body.t = "response" /\ body.analysis_sections.t = "array" THEN body.analysis_sections
    ELSE NoneV

\* what the response handler stores under id (NoneV: nothing)
AnalysisStored(body) ==
    IF body.t = "response" /\ body.analysis_sections.t = "array" THEN body.analysis_sections
    ELSE IF body.t = "string" THEN body
    ELSE NoneV

\* message of the TypeError that reading a property of null throws
NullMessage == Str(<<"Cannot read properties of null">>)

\* data.analysis_sections throws: the handler is past its mounted test and data is null
AnalysisThrows(r, body) == Mounted(r) /\ body = NoneV

\* .then(async (data) => ...): state of the page after it
AnalysisThen(r, body) ==
    IF ~(Mounted(r) /\ Live(r)) THEN ana
    ELSE IF body.t = "response" /\ body.analysis_sections.t = "array"
         THEN [ana EXCEPT !.analysisSections = body.analysis_sections]
    ELSE IF body.t = "string" THEN [ana EXCEPT !.analysisText = body]
    ELSE ana

\* .catch(err => { setError(err.message); })
AnalysisCatch(s, r, msg) ==
    IF Live(r) THEN [s EXCEPT !.error = msg] ELSE s

\* loading is never ended
AnalysisFinally_Never(s, r) == s

\* .finally(() => { if (mounted) setLoading(false); })
AnalysisFinally(s, r) ==
    IF Mounted(r) /\ Live(r) THEN [s EXCEPT !.loading = FALSE] ELSE s

MountAnalysis(id) ==
    /\ runCtr < MaxOps
    /\ LET e == AnalysisEffect(AnaInit, id, runCtr + 1, inst + 1) IN
        /\ ana' = e.st
        /\ reqs' = reqs \cup e.out
        /\ issued' = issued + Cardinality(Backend(e.out))
    /\ page' = "analysis"
    /\ inst' = inst + 1
    /\ routeId' = id
    /\ runCtr' = runCtr + 1
    /\ liveRun' = runCtr + 1
    /\ ing' = IngInit
    /\ home' = HomeInit
    /\ ev' = Ev("MountAnalysis", id, runCtr + 1, NoneV)
    /\ UNCHANGED <<notUI, cache, fdCache>>

RerunAnalysis(id) ==
    /\ page = "analysis"
    /\ runCtr < MaxOps
    /\ LET e == AnalysisEffect(ana, id, runCtr + 1, inst) IN
        /\ ana' = e.st
        /\ reqs' = reqs \cup e.out
        /\ issued' = issued + Cardinality(Backend(e.out))
    /\ routeId' = id
    /\ runCtr' = runCtr + 1
    /\ liveRun' = runCtr + 1
    /\ ev' = Ev("RerunAnalysis", id, runCtr + 1, NoneV)
    /\ UNCHANGED <<notUI, page, inst, ing, home, cache, fdCache>>

\* POST /api/v1/analyze/product/{id} answers OK with body
AnalyzeOk(r, body) ==
    /\ r \in reqs /\ r.kind = "analyze"
    /\ body \in AnalyzeBodies(r.id)
    /\ ana' = AnalysisFinally(IF AnalysisThrows(r, body)
                               THEN AnalysisCatch(ana, r, NullMessage)
                               ELSE AnalysisThen(r, body), r)
    /\ LET v == AnalysisStored(body) IN
        /\ cache' = IF Mounted(r) /\ v # NoneV THEN SetCacheEntry(cache, r.id, v) ELSE cache
        /\ fdCache' = IF Mounted(r) /\ v # NoneV THEN SetFdCache(fdCache, r.id, v) ELSE fdCache
    /\ reqs' = reqs \ {r}
    /\ ev' = Ev("AnalyzeOk", r.id, r.run, body)
    /\ UNCHANGED <<notUI, issued, page, inst, routeId, liveRun, runCtr, ing, home>>

\* POST /api/v1/analyze/product/{id} answers non-OK, or the fetch rejects
AnalyzeFail(r, msg) ==
    /\ r \in reqs /\ r.kind = "analyze"
    /\ msg \in FailMessages("analyze")
    /\ ana' = AnalysisFinally(AnalysisCatch(ana, r, msg), r)
    /\ reqs' = reqs \ {r}
    /\ ev' = Ev("AnalyzeFail", r.id, r.run, msg)
    /\ UNCHANGED <<notUI, issued, page, inst, routeId, liveRun, runCtr, ing, home, cache, fdCache>>

-----------------------------------------------------------------------------
(* Home *)

\* nothing is restored
HomeRestore_Never(s) == s

\* the restore effect run on mount
HomeRestore(s) ==
    IF Truthy(cache[LastSearchResults])
       /\ (cache[LastQuery] = Str(s.searchQuery) \/ cache[LastQuery] = NoneV)
    THEN [s EXCEPT !.searchResults = cache[LastSearchResults], !.hasSearched = TRUE]
    ELSE s

\* navigation to /: a new Home instance is mounted
MountHome ==
    /\ runCtr < MaxOps
    /\ page # "home"
    /\ home' = HomeRestore(HomeInit)
    /\ page' = "home"
    /\ inst' = inst + 1
    /\ routeId' = <<>>
    /\ runCtr' = runCtr + 1
    /\ liveRun' = 0
    /\ ing' = IngInit
    /\ ana' = AnaInit
    /\ ev' = Ev("MountHome", <<>>, runCtr + 1, NoneV)
    /\ UNCHANGED <<notUI, issued, cache, fdCache, reqs>>

\* onChange of the search box
SetSearchQuery(q) ==
    /\ page = "home"
    /\ home' = [home EXCEPT !.searchQuery = q]
    /\ ev' = Ev("SetSearchQuery", q, runCtr, NoneV)
    /\ UNCHANGED <<notUI, issued, page, inst, routeId, liveRun, runCtr, ing, ana, cache, fdCache, reqs>>

\* handleSearch(query) up to its await, called on state s as origin run
HandleSearch(s, query, run) ==
    IF Trim(query) = <<>> THEN [st |-> s, out |-> {}]
    ELSE [st |-> [s EXCEPT !.loading = TRUE, !.hasSearched = TRUE, !.lastSearchType = "text"],
          out |-> {Req("search", query, run, inst, NoneV)}]

\* the Search button or Enter: handleSearch(searchQuery)
Search ==
    /\ page = "home"
    /\ runCtr < MaxOps
    /\ LET h == HandleSearch(home, home.searchQuery, runCtr + 1) IN
        /\ home' = h.st
        /\ reqs' = reqs \cup h.out
        /\ issued' = issued + Cardinality(Backend(h.out))
    /\ runCtr' = runCtr + 1
    /\ ev' = Ev("Search", home.searchQuery, runCtr + 1, NoneV)
    /\ UNCHANGED <<notUI, page, inst, routeId, liveRun, ing, ana, cache, fdCache>>

\* data.products || []
OrEmpty(v) == IF Truthy(v) THEN v ELSE Arr(<<>>)

\* GET /api/v1/search answers OK
SearchOk(r, products) ==
    /\ r \in reqs /\ r.kind = "search"
    /\ products \in SearchBodies(r.id)
    /\ home' = IF Live(r)
               THEN [home EXCEPT !.searchResults = OrEmpty(products), !.loading = FALSE]
               ELSE home
    /\ cache' = SetCacheEntry(cache, LastSearchResults, OrEmpty(products))
    /\ reqs' = reqs \ {r}
    /\ ev' = Ev("SearchOk", r.id, r.run, products)
    /\ UNCHANGED <<notUI, issued, page, inst, routeId, liveRun, runCtr, ing, ana, fdCache>>

\* the list shown before is kept when the search fails
SearchFailed_KeepsResults(s, r) ==
    IF Live(r) THEN [s EXCEPT !.loading = FALSE] ELSE s

\* the else branch and the catch of handleSearch, then its finally
SearchFailed(s, r) ==
    IF Live(r) THEN [s EXCEPT !.searchResults = Arr(<<>>), !.loading = FALSE] ELSE s

\* GET /api/v1/search answers non-OK, or the fetch rejects
SearchFail(r) ==
    /\ r \in reqs /\ r.kind = "search"
    /\ home' = SearchFailed(home, r)
    /\ reqs' = reqs \ {r}
    /\ ev' = Ev("SearchFail", r.id, r.run, NoneV)
    /\ UNCHANGED <<notUI, issued, page, inst, routeId, liveRun, runCtr, ing, ana, cache, fdCache>>

\* handleBarcodeSearch(barcode) up to its await
HandleBarcodeSearch(s, barcode, run) ==
    [st |-> [s EXCEPT !.loading = TRUE, !.hasSearched = TRUE, !.searchResults = Arr(<<>>),
                      !.lastSearchType = "barcode", !.searchQuery = barcode],
     out |-> {Req("barcode", barcode, run, inst, NoneV)}]

\* onSearch of the barcode modal
BarcodeSearch(b) ==
    /\ page = "home"
    /\ runCtr < MaxOps
    /\ LET h == HandleBarcodeSearch(home, b, runCtr + 1) IN
        /\ home' = h.st
        /\ reqs' = reqs \cup h.out
        /\ issued' = issued + Cardinality(Backend(h.out))
    /\ runCtr' = runCtr + 1
    /\ ev' = Ev("BarcodeSearch", b, runCtr + 1, NoneV)
    /\ UNCHANGED <<notUI, page, inst, routeId, liveRun, ing, ana, cache, fdCache>>

\* the finally of handleBarcodeSearch is left out
BarcodeSettle_NoFinally(s, r, res) ==
    IF Live(r) THEN [s EXCEPT !.searchResults = res] ELSE s

\* the rest of handleBarcodeSearch once the race is settled with result list res
BarcodeSettle(s, r, res) ==
    IF Live(r) THEN [s EXCEPT !.searchResults = res, !.loading = FALSE] ELSE s

\* GET /api/v1/barcode/{code} answers OK before the timeout
BarcodeOk(r, body) ==
    /\ r \in reqs /\ r.kind = "barcode" /\ ~r.settled
    /\ body \in BarcodeBodies(r.id)
    /\ home' = BarcodeSettle(home, r, IF Truthy(body) THEN Arr(<<r.id>>) ELSE Arr(<<>>))
    /\ reqs' = reqs \ {r}
    /\ ev' = Ev("BarcodeOk", r.id, r.run, body)
    /\ UNCHANGED <<notUI, issued, page, inst, routeId, liveRun, runCtr, ing, ana, cache, fdCache>>

\* GET /api/v1/barcode/{code} answers non-OK or rejects before the timeout
BarcodeFail(r) ==
    /\ r \in reqs /\ r.kind = "barcode" /\ ~r.settled
    /\ home' = BarcodeSettle(home, r, Arr(<<>>))
    /\ reqs' = reqs \ {r}
    /\ ev' = Ev("BarcodeFail", r.id, r.run, NoneV)
    /\ UNCHANGED <<notUI, issued, page, inst, routeId, liveRun, runCtr, ing, ana, cache, fdCache>>

\* the 13 s timer rejects the race first; the fetch stays in flight
BarcodeTimeout(r) ==
    /\ r \in reqs /\ r.kind = "barcode" /\ ~r.settled
    /\ home' = BarcodeSettle(home, r, Arr(<<>>))
    /\ reqs' = (reqs \ {r}) \cup {[r EXCEPT !.settled = TRUE]}
    /\ ev' = Ev("BarcodeTimeout", r.id, r.run, NoneV)
    /\ UNCHANGED <<notUI, issued, page, inst, routeId, liveRun, runCtr, ing, ana, cache, fdCache>>

\* the fetch of a race that the timer won is answered: nobody awaits it
BarcodeLate(r) ==
    /\ r \in reqs /\ r.kind = "barcode" /\ r.settled
    /\ reqs' = reqs \ {r}
    /\ ev' = Ev("BarcodeLate", r.id, r.run, NoneV)
    /\ UNCHANGED <<notUI, issued, page, inst, routeId, liveRun, runCtr, ing, ana, home, cache, fdCache>>

-----------------------------------------------------------------------------
(* The client as a whole *)

InitUI ==
    /\ InitClient
    /\ IdleParse
    /\ IdleEntry
    /\ IdleConfig
    /\ IdleDisplay
    /\ IdleRating
    /\ IdleLoading

NextUI ==
    \/ \E id \in Ids : MountIngredients(id)
    \/ \E id \in Ids : RerunIngredients(id)
    \/ \E r \in reqs : \E d \in ProductBodies(r.id) : ProductOk(r, d)
    \/ \E r \in reqs : \E msg \in FailMessages("product") : ProductFail(r, msg)
    \/ \E r \in reqs : ImageOk(r)
    \/ \E r \in reqs : ImageNone(r)
    \/ \E id \in Ids : MountAnalysis(id)
    \/ \E id \in Ids : RerunAnalysis(id)
    \/ \E r \in reqs : \E body \in AnalyzeBodies(r.id) : AnalyzeOk(r, body)
    \/ \E r \in reqs : \E msg \in FailMessages("analyze") : AnalyzeFail(r, msg)
    \/ MountHome
    \/ \E q \in Queries : SetSearchQuery(q)
    \/ Search
    \/ \E r \in reqs : \E products \in SearchBodies(r.id) : SearchOk(r, products)
    \/ \E r \in reqs : SearchFail(r)
    \/ \E b \in Barcodes : BarcodeSearch(b)
    \/ \E r \in reqs : \E body \in BarcodeBodies(r.id) : BarcodeOk(r, body)
    \/ \E r \in reqs : BarcodeFail(r)
    \/ \E r \in reqs : BarcodeTimeout(r)
    \/ \E r \in reqs : BarcodeLate(r)

SpecUI == InitUI /\ [][NextUI]_vars

-----------------------------------------------------------------------------
(* parseAnalysisText (AnalysisDisplay.tsx) *)

\* longest text given to parseAnalysisText
MaxText == 4

\* the headers of the lookahead `nextHeader`, each one token (matched with flag i)
NextHeader == {"SUMMARY", "KEY RISKS", "POSITIVE HIGHLIGHTS", "RECOMMENDATION",
               "MARKETING TRAPS", "OVERALL VERDICT"}

\* tokens of a text: a header, a colon, a blank, a line break, any other word
Tokens == NextHeader \cup {":", " ", "\n", "w"}

\* the first two patterns in the other order
SectionPatterns_Swapped ==
    << [header |-> "KEY RISKS", title |-> "Key Risks"],
       [header |-> "SUMMARY", title |-> "Summary"],
       [header |-> "POSITIVE HIGHLIGHTS", title |-> "Positive Highlights"],
       [header |-> "RECOMMENDATION", title |-> "Recommendation"],
       [header |-> "MARKETING TRAPS", title |-> "Marketing Traps"] >>

\* sectionPatterns: header of the pattern and title of the section, in array order
SectionPatterns ==
    << [header |-> "SUMMARY", title |-> "Summary"],
       [header |-> "KEY RISKS", title |-> "Key Risks"],
       [header |-> "POSITIVE HIGHLIGHTS", title |-> "Positive Highlights"],
       [header |-> "RECOMMENDATION", title |-> "Recommendation"],
       [header |-> "MARKETING TRAPS", title |-> "Marketing Traps"] >>

\* first position >= i of txt that holds no whitespace (greedy \s*)
RECURSIVE SkipSpace(_, _)
SkipSpace(txt, i) ==
    IF i <= Len(txt) /\ txt[i] \in Space THEN SkipSpace(txt, i + 1) ELSE i

\* the lookahead (?=\n\s*nextHeader|$) at position e
Lookahead(txt, e) ==
    \/ e = Len(txt) + 1
    \/ /\ e <= Len(txt) /\ txt[e] = "\n"
       /\ LET k == SkipSpace(txt, e + 1) IN k <= Len(txt) /\ txt[k] \in NextHeader

\* end of the lazy group ([\s\S]*?) that starts at position i: the first
\* position from i on where the lookahead holds
RECURSIVE LazyEnd(_, _)
LazyEnd(txt, i) == IF Lookahead(txt, i) THEN i ELSE LazyEnd(txt, i + 1)

\* text.match(pattern) for the pattern of header h: the leftmost occurrence of
\* the header, an optional colon, whitespace, then the captured group
Match(txt, h) ==
    IF \A i \in 1..Len(txt) : txt[i] # h THEN [found |-> FALSE, content |-> <<>>]
    ELSE LET at == CHOOSE i \in 1..Len(txt) : txt[i] = h /\ \A j \in 1..(i - 1) : txt[j] # h
             colon == IF at + 1 <= Len(txt) /\ txt[at + 1] = ":" THEN at + 2 ELSE at + 1
             from == SkipSpace(txt, colon)
         IN [found |-> TRUE, content |-> SubSeq(txt, from, LazyEnd(txt, from) - 1)]

\* the forEach over sectionPatterns from index i on, acc the sections pushed so far
RECURSIVE ParseFrom(_, _, _, _)
ParseFrom(pats, txt, i, acc) ==
    IF i > Len(pats) THEN acc
    ELSE LET m == Match(txt, pats[i].header)
             content == Trim(m.content)
         IN ParseFrom(pats, txt, i + 1,
                      IF m.found /\ m.content # <<>> /\ content # <<>>
                      THEN Append(acc, [title |-> pats[i].title, content |-> content])
                      ELSE acc)

ParseAnalysisText(txt) == ParseFrom(SectionPatterns, txt, 1, <<>>)

\* all texts of at most n tokens
Texts(n) == UNION {[1..k -> Tokens] : k \in 0..n}

InitParse ==
    /\ text \in Texts(MaxText)
    /\ sections = <<>>
    /\ parsed = FALSE
    /\ InitClient
    /\ IdleEntry
    /\ IdleConfig
    /\ IdleDisplay
    /\ IdleRating
    /\ IdleLoading

\* AnalysisDisplay calls parseAnalysisText(analysisText)
Parse ==
    /\ ~parsed
    /\ sections' = ParseAnalysisText(text)
    /\ parsed' = TRUE
    /\ UNCHANGED <<text, notParse>>

NextParse == Parse

SpecParse == InitParse /\ [][NextParse]_vars

-----------------------------------------------------------------------------
(* The production entrypoint (entrypoint.sh) *)

\* signals delivered to the script in a behaviour
MaxSignals == 2

Children == {"frontend", "backend"}

\* the signals of `trap cleanup TERM INT QUIT`, with their numbers
Signals == {[name |-> "TERM", no |-> 15], [name |-> "INT", no |-> 2], [name |-> "QUIT", no |-> 3]}

\* values of the container's PORT variable: unset, empty, or a port
PortValues == {NoneV, Str(<<>>), Str(<<"3000">>), Str(<<"10000">>)}

\* INTERNAL_FRONTEND_PORT=3000
INTERNAL_FRONTEND_PORT == <<"3000">>

\* "${PORT-8000}": the default is taken only when PORT is unset
PUBLIC_PORT_UnsetOnly(e) == IF e = NoneV THEN <<"8000">> ELSE e.s

\* PUBLIC_PORT="${PORT:-8000}": the default is taken when PORT is unset or null
PUBLIC_PORT(e) == IF e = NoneV \/ e.s = <<>> THEN <<"8000">> ELSE e.s

\* kill -0 $PID
Alive(c) == proc[c] = "running"

\* || in place of &&
LoopCondition_Either == Alive("backend") \/ Alive("frontend")

\* condition of the wait loop
LoopCondition == Alive("backend") /\ Alive("frontend")

\* wait $BACKEND_PID $FRONTEND_PID returns once both children have stopped
WaitReturns == \A c \in Children : ~Alive(c)

InitEntry ==
    /\ env \in PortValues
    /\ pc = "start"
    /\ proc = [c \in Children |-> "none"]
    /\ port = [c \in Children |-> <<>>]
    /\ launched = <<>>
    /\ trapSet = FALSE
    /\ killed = {}
    /\ sigs = 0
    /\ status = -1
    /\ InitClient
    /\ IdleParse
    /\ IdleConfig
    /\ IdleDisplay
    /\ IdleRating
    /\ IdleLoading

\* lines 12-26: the variables are set and Next.js is started in the background
LaunchFrontend ==
    /\ pc = "start"
    /\ proc' = [proc EXCEPT !["frontend"] = "running"]
    /\ port' = [port EXCEPT !["frontend"] = INTERNAL_FRONTEND_PORT]
    /\ launched' = Append(launched, "frontend")
    /\ pc' = "sleep"
    /\ UNCHANGED <<notEntry, env, trapSet, killed, sigs, status>>

\* line 29: sleep 2
Sleep ==
    /\ pc = "sleep"
    /\ pc' = "backend"
    /\ UNCHANGED <<notEntry, env, proc, port, launched, trapSet, killed, sigs, status>>

\* lines 32-34: uvicorn is started in the background
LaunchBackend ==
    /\ pc = "backend"
    /\ proc' = [proc EXCEPT !["backend"] = "running"]
    /\ port' = [port EXCEPT !["backend"] = PUBLIC_PORT(env)]
    /\ launched' = Append(launched, "backend")
    /\ pc' = "trap"
    /\ UNCHANGED <<notEntry, env, trapSet, killed, sigs, status>>

\* line 45: trap cleanup TERM INT QUIT
InstallTrap ==
    /\ pc = "trap"
    /\ trapSet' = TRUE
    /\ pc' = "loop"
    /\ UNCHANGED <<notEntry, env, proc, port, launched, killed, sigs, status>>

\* lines 48-55: one test of the loop condition; sleep 1 and test again while
\* both are alive, else the report and the call of cleanup
WaitLoop ==
    /\ pc = "loop"
    /\ pc' = IF LoopCondition THEN "loop" ELSE "kill"
    /\ UNCHANGED <<notEntry, env, proc, port, launched, trapSet, killed, sigs, status>>

\* line 40 of cleanup: kill $BACKEND_PID $FRONTEND_PID
CleanupKill ==
    /\ pc = "kill"
    /\ killed' = killed \cup Children
    /\ pc' = "wait"
    /\ UNCHANGED <<notEntry, env, proc, port, launched, trapSet, sigs, status>>

\* line 41 of cleanup: wait $BACKEND_PID $FRONTEND_PID
CleanupWait ==
    /\ pc = "wait"
    /\ WaitReturns
    /\ pc' = "exit"
    /\ UNCHANGED <<notEntry, env, proc, port, launched, trapSet, killed, sigs, status>>

\* lines 42-43 of cleanup: exit 0
CleanupExit ==
    /\ pc = "exit"
    /\ status' = 0
    /\ pc' = "exited"
    /\ UNCHANGED <<notEntry, env, proc, port, launched, trapSet, killed, sigs>>

\* a signal arrives once the trap is set: the shell takes the trap at the next
\* command boundary (a wait in progress is interrupted) and calls cleanup
SignalTrapped(sig) ==
    /\ sigs < MaxSignals
    /\ trapSet
    /\ pc \notin {"exited", "killed"}
    /\ sigs' = sigs + 1
    /\ pc' = "kill"
    /\ UNCHANGED <<notEntry, env, proc, port, launched, trapSet, killed, status>>

\* a signal arrives before line 45 and has its default action: the shell is
\* terminated, the children are not signalled
SignalDefault(sig) ==
    /\ sigs < MaxSignals
    /\ ~trapSet
    /\ pc \notin {"exited", "killed"}
    /\ sigs' = sigs + 1
    /\ pc' = "killed"
    /\ status' = 128 + sig.no
    /\ UNCHANGED <<notEntry, env, proc, port, launched, trapSet, killed>>

\* a signal arrives before line 45 while the script is process 1 of the
\* container (ENTRYPOINT): the kernel drops a signal process 1 has no handler for
SignalDropped(sig) ==
    /\ sigs < MaxSignals
    /\ ~trapSet
    /\ pc \notin {"exited", "killed"}
    /\ sigs' = sigs + 1
    /\ UNCHANGED <<notEntry, env, pc, proc, port, launched, trapSet, killed, status>>

\* a child exits on its own
ChildDies(c) ==
    /\ Alive(c)
    /\ c \notin killed
    /\ proc' = [proc EXCEPT ![c] = "exited"]
    /\ UNCHANGED <<notEntry, env, pc, port, launched, trapSet, killed, sigs, status>>

\* a child that was sent the kill stops
ChildStops(c) ==
    /\ Alive(c)
    /\ c \in killed
    /\ proc' = [proc EXCEPT ![c] = "stopped"]
    /\ UNCHANGED <<notEntry, env, pc, port, launched, trapSet, killed, sigs, status>>

\* the commands of the script
Script ==
    \/ LaunchFrontend \/ Sleep \/ LaunchBackend \/ InstallTrap
    \/ WaitLoop \/ CleanupKill \/ CleanupWait \/ CleanupExit

NextEntry ==
    \/ LaunchFrontend
    \/ Sleep
    \/ LaunchBackend
    \/ InstallTrap
    \/ WaitLoop
    \/ CleanupKill
    \/ CleanupWait
    \/ CleanupExit
    \/ \E sig \in Signals : SignalTrapped(sig)
    \/ \E sig \in Signals : SignalDefault(sig)
    \/ \E sig \in Signals : SignalDropped(sig)
    \/ \E c \in Children : ChildDies(c)
    \/ \E c \in Children : ChildStops(c)

SpecEntry == InitEntry /\ [][NextEntry]_vars

\* the shell goes on executing its script, and a process that is sent the
\* kill stops
SpecEntryFair ==
    /\ InitEntry /\ [][NextEntry]_vars
    /\ WF_vars(Script)
    /\ \A c \in Children : WF_vars(ChildStops(c))

-----------------------------------------------------------------------------
(* lib/config: getBaseUrl, API_CONFIG, getApiUrl, and the fetch call sites *)

\* values of NEXT_PUBLIC_API_URL: unset, empty, or the URL of a backend
ApiEnvValues == {NoneV, Str(<<>>), Str(<<"http://api.test">>)}

\* JavaScript truthiness of a string or undefined
TruthyStr(v) == v # NoneV /\ v.s # <<>>

\* the variable is read with ?? '' and the browser is not tested
GetBaseUrl_NullishOnly(w, e) == IF e = NoneV THEN <<>> ELSE e.s

\* getBaseUrl()
GetBaseUrl(w, e) ==
    IF w THEN (IF TruthyStr(e) THEN e.s ELSE <<>>)
    ELSE (IF TruthyStr(e) THEN e.s ELSE <<"http://127.0.0.1:8000">>)

\* API_CONFIG.ENDPOINTS
ENDPOINTS ==
    [SEARCH |-> <<"/api/v1/search">>,
     ANALYZE |-> <<"/api/v1/analyze/product">>,
     PRODUCT |-> <<"/api/v1/product">>,
     OCR |-> <<"/api/v1/ocr">>,
     BARCODE |-> <<"/api/v1/barcode">>]

\* the path is appended even when it is missing
GetApiUrl_AlwaysPath(w, e, endpoint, path) ==
    GetBaseUrl(w, e) \o ENDPOINTS[endpoint] \o <<"/">>
        \o (IF path = NoneV THEN <<"undefined">> ELSE path.s)

\* getApiUrl(endpoint, path)
GetApiUrl(w, e, endpoint, path) ==
    IF TruthyStr(path)
    THEN GetBaseUrl(w, e) \o ENDPOINTS[endpoint] \o <<"/">> \o path.s
    ELSE GetBaseUrl(w, e) \o ENDPOINTS[endpoint]

\* characters encodeURIComponent escapes, with their escapes; a word of
\* letters is left as it is
Escapes == [c \in {" ", "&", "\n"} |->
              IF c = " " THEN "%20" ELSE IF c = "&" THEN "%26" ELSE "%0A"]

\* encodeURIComponent(s)
RECURSIVE EncodeURIComponent(_)
EncodeURIComponent(s) ==
    IF s = <<>> THEN <<>>
    ELSE <<IF Head(s) \in DOMAIN Escapes THEN Escapes[Head(s)] ELSE Head(s)>>
             \o EncodeURIComponent(Tail(s))

\* what the user can type into the search box, character by character
SearchTexts == {<<"milk">>, <<"a", " ", "b">>, <<"a", "&", "b">>, <<" ">>}

\* what the barcode modal can hand to onSearch
BarcodeTexts == {<<"7">>, <<>>}

\* fetch(getApiUrl('PRODUCT', `${id}`))
ProductFetch(w, e, id) ==
    [kind |-> "product", arg |-> id, method |-> "GET",
     url |-> GetApiUrl(w, e, "PRODUCT", Str(id))]

\* fetch(getApiUrl('ANALYZE', `${id}`), { method: "POST" })
AnalyzeFetch(w, e, id) ==
    [kind |-> "analyze", arg |-> id, method |-> "POST",
     url |-> GetApiUrl(w, e, "ANALYZE", Str(id))]

\* fetch(`${getApiUrl('SEARCH')}?q=${encodeURIComponent(query)}`)
SearchFetch(w, e, query) ==
    [kind |-> "search", arg |-> query, method |-> "GET",
     url |-> GetApiUrl(w, e, "SEARCH", NoneV) \o <<"?q=">> \o EncodeURIComponent(query)]

\* fetch(`${getApiUrl('BARCODE')}/${barcode}`)
BarcodeFetch(w, e, barcode) ==
    [kind |-> "barcode", arg |-> barcode, method |-> "GET",
     url |-> GetApiUrl(w, e, "BARCODE", NoneV) \o <<"/">> \o barcode]

InitConfig ==
    /\ window \in BOOLEAN
    /\ apiEnv \in ApiEnvValues
    /\ built = NoneV
    /\ fetched = NoneV
    /\ InitClient
    /\ IdleParse
    /\ IdleEntry
    /\ IdleDisplay
    /\ IdleRating
    /\ IdleLoading

\* a call of getApiUrl(endpoint, path); path may be omitted or empty
CallGetApiUrl(endpoint, path) ==
    /\ built' = [endpoint |-> endpoint, path |-> path,
                 base |-> GetBaseUrl(window, apiEnv),
                 url |-> GetApiUrl(window, apiEnv, endpoint, path)]
    /\ UNCHANGED <<notConfig, window, apiEnv, fetched>>

\* the load effect of the ingredients page reaches its fetch (params.id is not empty)
FetchProduct(id) ==
    /\ window
    /\ fetched' = ProductFetch(window, apiEnv, id)
    /\ UNCHANGED <<notConfig, window, apiEnv, built>>

\* the load effect of the analysis page reaches its fetch (params.id is not empty)
FetchAnalyze(id) ==
    /\ window
    /\ fetched' = AnalyzeFetch(window, apiEnv, id)
    /\ UNCHANGED <<notConfig, window, apiEnv, built>>

\* handleSearch(query) reaches its fetch (query.trim() is not empty)
FetchSearch(query) ==
    /\ window
    /\ Trim(query) # <<>>
    /\ fetched' = SearchFetch(window, apiEnv, query)
    /\ UNCHANGED <<notConfig, window, apiEnv, built>>

\* handleBarcodeSearch(barcode) reaches its fetch
FetchBarcode(barcode) ==
    /\ window
    /\ fetched' = BarcodeFetch(window, apiEnv, barcode)
    /\ UNCHANGED <<notConfig, window, apiEnv, built>>

NextConfig ==
    \/ \E endpoint \in DOMAIN ENDPOINTS :
          \E path \in {NoneV, Str(<<>>)} \cup {Str(id) : id \in Ids} :
             CallGetApiUrl(endpoint, path)
    \/ \E id \in Ids : FetchProduct(id)
    \/ \E id \in Ids : FetchAnalyze(id)
    \/ \E query \in SearchTexts : FetchSearch(query)
    \/ \E barcode \in BarcodeTexts : FetchBarcode(barcode)

SpecConfig == InitConfig /\ [][NextConfig]_vars

-----------------------------------------------------------------------------
(* AnalysisDisplay: the sections it renders *)

\* entries of analysisSections in a render
MaxSections == 7

\* sectionConfig: the titles, by index
SectionConfig ==
    <<"Overall Verdict", "Summary", "Key Risks", "Positive Highlights",
      "Recommendation", "Marketing Traps">>

\* config?.title || `Section ${index + 1}` for the entry at position i (index i - 1)
ConfigTitle(i) ==
    IF i <= Len(SectionConfig) THEN SectionConfig[i] ELSE "Section " \o ToString(i)

\* the map callback: null for a blank entry, else a Section
ToSection(content, i) ==
    IF Trim(content) = <<>> THEN NoneV
    ELSE [title |-> ConfigTitle(i), content |-> content]

\* the entries are filtered first and titled by their position among the kept ones
SectionsFromArray_FilterFirst(arr) ==
    LET kept == SelectSeq(arr, LAMBDA c : Trim(c) # <<>>)
    IN [i \in 1..Len(kept) |-> [title |-> ConfigTitle(i), content |-> kept[i]]]

\* sectionsFromArray: analysisSections.map(...).filter(s => s !== null)
SectionsFromArray(arr) ==
    SelectSeq([i \in 1..Len(arr) |-> ToSection(arr[i], i)], LAMBDA x : x # NoneV)

\* const sections = sectionsFromArray.length > 0 ? sectionsFromArray : parseAnalysisText(analysisText)
DisplaySections(p) ==
    IF Len(SectionsFromArray(p.sections)) > 0 THEN SectionsFromArray(p.sections)
    ELSE ParseAnalysisText(p.text)

\* contents of an entry: empty, blank, or a word
Entries == {<<>>, <<" ">>, <<"w">>}

\* texts given as analysisText: empty, a summary, a word
DisplayTexts == {<<>>, <<"SUMMARY", ":", "w">>, <<"w">>}

\* all arrays of at most n entries
Arrays(n) == UNION {[1..k -> Entries] : k \in 0..n}

InitDisplay ==
    /\ props \in [text : DisplayTexts, sections : Arrays(MaxSections)]
    /\ shown = NoneV
    /\ InitClient
    /\ IdleParse
    /\ IdleEntry
    /\ IdleConfig
    /\ IdleRating
    /\ IdleLoading

\* AnalysisDisplay is rendered with props
Render ==
    /\ shown = NoneV
    /\ shown' = Arr(DisplaySections(props))
    /\ UNCHANGED <<props, notDisplay>>

NextDisplay == Render

SpecDisplay == InitDisplay /\ [][NextDisplay]_vars

-----------------------------------------------------------------------------
(* AnalysisDisplay: extractHealthRating *)

\* fragments concatenated into a text given to extractHealthRating
MaxFragments == 4

\* /Rating/i
RatingWords == {"Rating", "rating"}

\* \d+(?:\.\d+)? : the numbers of the texts
Numbers == {"7", "7.5"}

\* parseFloat of a captured number, in tenths
ParseFloat(n) == IF n = "7" THEN 70 ELSE 75

\* [:\s]+ : position after the run of colons and whitespace that starts at i
RECURSIVE SkipSeparators(_, _)
SkipSeparators(txt, i) ==
    IF i <= Len(txt) /\ txt[i] \in Space \cup {":"} THEN SkipSeparators(txt, i + 1) ELSE i

\* Rating[:\s]+(\d+(?:\.\d+)?)\s*\/\s*10 at position i: the number captured,
\* or NoneV; the token "/10" stands for a slash, optional whitespace and 10
RatingAt(txt, i) ==
    IF i <= Len(txt) /\ txt[i] \in RatingWords
    THEN LET n == SkipSeparators(txt, i + 1)
             s == SkipSpace(txt, n + 1)
         IN IF /\ n > i + 1
               /\ n <= Len(txt) /\ txt[n] \in Numbers
               /\ s <= Len(txt) /\ txt[s] = "/10"
            THEN Str(<<txt[n]>>)
            ELSE NoneV
    ELSE NoneV

\* the whole pattern at position i, the optional group (?:Health\s+)? tried first
RatingMatchAt(txt, i) ==
    LET h == SkipSpace(txt, i + 1)
        withHealth == IF i <= Len(txt) /\ txt[i] = "Health" /\ h > i + 1
                      THEN RatingAt(txt, h) ELSE NoneV
    IN IF withHealth # NoneV THEN withHealth ELSE RatingAt(txt, i)

\* text.match(...) of line 25: the leftmost match from position i on
RECURSIVE RatingMatch(_, _)
RatingMatch(txt, i) ==
    IF i > Len(txt) THEN NoneV
    ELSE IF RatingMatchAt(txt, i) # NoneV THEN RatingMatchAt(txt, i)
    ELSE RatingMatch(txt, i + 1)

\* [^\n]+ : position after the run of tokens other than a line break that starts at i
RECURSIVE LineEnd(_, _)
LineEnd(txt, i) == IF i <= Len(txt) /\ txt[i] # "\n" THEN LineEnd(txt, i + 1) ELSE i

\* \s*([^\n]+) from position i: the group is tried at k, after the longest
\* run of whitespace first, then after shorter ones
RECURSIVE VerdictGroup(_, _, _)
VerdictGroup(txt, i, k) ==
    IF k < i THEN NoneV
    ELSE IF LineEnd(txt, k) > k THEN Str(SubSeq(txt, k, LineEnd(txt, k) - 1))
    ELSE VerdictGroup(txt, i, k - 1)

\* OVERALL VERDICT:?\s*([^\n]+) at position i: with the colon taken first,
\* then without it
VerdictAt(txt, i) ==
    IF i <= Len(txt) /\ txt[i] = "OVERALL VERDICT"
    THEN LET taken == IF i + 1 <= Len(txt) /\ txt[i + 1] = ":"
                      THEN VerdictGroup(txt, i + 2, SkipSpace(txt, i + 2))
                      ELSE NoneV
         IN IF taken # NoneV THEN taken
            ELSE VerdictGroup(txt, i + 1, SkipSpace(txt, i + 1))
    ELSE NoneV

\* text.match(...) of line 30: the leftmost match from position i on
RECURSIVE VerdictMatch(_, _)
VerdictMatch(txt, i) ==
    IF i > Len(txt) THEN NoneV
    ELSE IF VerdictAt(txt, i) # NoneV THEN VerdictAt(txt, i)
    ELSE VerdictMatch(txt, i + 1)

\* String(v) for a value that is not a string
StringOf(v) == <<"[object Object]">>

\* lines 21-23: text = text ? String(text) : '' for an argument that is not a string
RatingText(v) ==
    IF v.t = "string" THEN v.s ELSE IF Truthy(v) THEN StringOf(v) ELSE <<>>

\* extractHealthRating
ExtractHealthRating(v) ==
    LET txt == RatingText(v)
        ratingMatch == RatingMatch(txt, 1)
        verdictMatch == VerdictMatch(txt, 1)
    IN IF ratingMatch # NoneV
       THEN [t |-> "rating",
             score |-> ParseFloat(ratingMatch.s[1]),
             verdict |-> IF verdictMatch # NoneV THEN Trim(verdictMatch.s) ELSE <<>>]
       ELSE NoneV

\* tokens of the texts
RatingTokens ==
    {"Health", "Rating", "rating", ":", " ", "\n", "7", "/10", "OVERALL VERDICT", "w"}

\* the pieces a text is made of: single tokens and two rating phrases
Fragments ==
    {<<tok>> : tok \in RatingTokens}
       \cup {<<"Rating", ":", "7", "/10">>, <<"Rating", " ", "7.5", " ", "/10">>}

\* the texts made of at most n fragments
RECURSIVE RatingTexts(_)
RatingTexts(n) ==
    IF n = 0 THEN {<<>>}
    ELSE LET shorter == RatingTexts(n - 1)
         IN shorter \cup {a \o f : a \in shorter, f \in Fragments}

\* the arguments: strings, null, an object
RatingArgs == {Str(txt) : txt \in RatingTexts(MaxFragments)} \cup {NoneV, [t |-> "object"]}

InitRating ==
    /\ arg \in RatingArgs
    /\ rating = Pending
    /\ InitClient
    /\ IdleParse
    /\ IdleEntry
    /\ IdleConfig
    /\ IdleDisplay
    /\ IdleLoading

\* extractHealthRating is called with arg
CallExtractHealthRating ==
    /\ rating = Pending
    /\ rating' = ExtractHealthRating(arg)
    /\ UNCHANGED <<arg, notRating>>

NextRating == CallExtractHealthRating

SpecRating == InitRating /\ [][NextRating]_vars

-----------------------------------------------------------------------------
(* LoadingAnimation: the progress bar and the stages *)

\* callbacks of progressInterval in a behaviour
MaxTicks == 330

\* callbacks of stageInterval in a behaviour
MaxStageTicks == 7

\* progress is held in sixteenths of a percent: 100 / 320 is 5/16, and every
\* sum of such steps up to 100 is exact in floating point
Sixteenths == 16

Percent(n) == n * Sixteenths

\* analysisStages: the progress value of each stage
AnalysisStages == <<15, 30, 50, 70, 85, 100>>

\* the updater of setProgress
NextProgress(prev) ==
    IF prev >= Percent(100) THEN Percent(100) ELSE prev + (Percent(100) \div 320)

\* the updater of setCurrentStage
NextStage(prev) ==
    IF prev >= Len(AnalysisStages) - 1 THEN prev ELSE prev + 1

InitLoading ==
    /\ progress = 0
    /\ currentStage = 0
    /\ running = TRUE
    /\ ticks = 0
    /\ stageTicks = 0
    /\ was = [progress |-> 0, currentStage |-> 0]
    /\ InitClient
    /\ IdleParse
    /\ IdleEntry
    /\ IdleConfig
    /\ IdleDisplay
    /\ IdleRating

\* the callback of progressInterval, every 100 ms
ProgressTick ==
    /\ running
    /\ ticks < MaxTicks
    /\ progress' = NextProgress(progress)
    /\ ticks' = ticks + 1
    /\ was' = [progress |-> progress, currentStage |-> currentStage]
    /\ UNCHANGED <<currentStage, running, stageTicks, notLoading>>

\* the callback of stageInterval, every 5500 ms
StageTick ==
    /\ running
    /\ stageTicks < MaxStageTicks
    /\ currentStage' = NextStage(currentStage)
    /\ stageTicks' = stageTicks + 1
    /\ was' = [progress |-> progress, currentStage |-> currentStage]
    /\ UNCHANGED <<progress, running, ticks, notLoading>>

\* the cleanup of the effect: the intervals are cleared
ClearIntervals ==
    /\ running
    /\ running' = FALSE
    /\ UNCHANGED <<progress, currentStage, ticks, stageTicks, was, notLoading>>

NextLoading == ProgressTick \/ StageTick \/ ClearIntervals

SpecLoading == InitLoading /\ [][NextLoading]_vars

-----------------------------------------------------------------------------
(* Properties of the client *)

\* the step answers request r: its callbacks run and it leaves the set in flight
Answered(r) == r \in reqs /\ r \notin reqs'

\* the step is a run of the load effect of the ingredients page / analysis page for id
IngLoadStep(id) ==
    ev'.op \in {"MountIngredients", "RerunIngredients"} /\ ev'.id = id /\ ev'.run = runCtr + 1

AnaLoadStep(id) ==
    ev'.op \in {"MountAnalysis", "RerunAnalysis"} /\ ev'.id = id /\ ev'.run = runCtr + 1

\* C1 (as claimed): once the cleanup of a load effect has run, no callback of
\* the request that effect started (success, failure, completion, image
\* lookup) changes the component state of the ingredients page or of the
\* analysis page.
C1_NoUpdateAfterCleanup ==
    [][\A r \in reqs :
          (r.kind \in {"product", "image", "analyze"} /\ ~Mounted(r) /\ Answered(r))
             => (ing' = ing /\ ana' = ana)]_vars

C3_ProductFailureShowsError ==
    [][\A r \in reqs :
          (Answered(r) /\ ev'.op = "ProductFail" /\ Mounted(r) /\ ~Truthy(cache[r.id]))
             => (ing'.error = ev'.val /\ ing'.error # NoneV /\ ~ing'.loading
                 /\ IngView' = "error")]_vars

C3_Witness ==
    /\ ev.op = "ProductFail"
    /\ ev.run = liveRun
    /\ page = "ingredients"
    /\ ~Truthy(cache[ev.id])
    /\ ing.error = ev.val
    /\ IngView = "error"

\* C4: when the analyze request of the mounted run fails and neither cache has
\* an entry for the id, the page is in the "Analysis Failed" state after the
\* handlers (loading false, error set, no analysis rendered) and both caches
\* are as before.
C4_AnalysisFailureShowsFailed ==
    [][\A r \in reqs :
          (Answered(r) /\ ev'.op = "AnalyzeFail" /\ Mounted(r)
           /\ ~Truthy(cache[r.id]) /\ ~Truthy(fdCache[r.id]))
             => (ana'.error = ev'.val /\ ana'.error # NoneV /\ ~ana'.loading
                 /\ AnaView' = "failed" /\ cache' = cache /\ fdCache' = fdCache)]_vars

C4_Witness ==
    /\ ev.op = "AnalyzeFail"
    /\ ev.run = liveRun
    /\ page = "analysis"
    /\ ~Truthy(cache[ev.id]) /\ ~Truthy(fdCache[ev.id])
    /\ ana.error = ev.val
    /\ AnaView = "failed"

C6_NoRetry ==
    [][ /\ issued' \in {issued, issued + 1}
        /\ issued' = issued + 1 =>
              /\ runCtr' = runCtr + 1
              /\ reqs \subseteq reqs'
              /\ Cardinality(Backend(reqs')) = Cardinality(Backend(reqs)) + 1
              /\ \E q \in reqs' \ reqs : q.run = runCtr'
        /\ (\E r \in reqs : Answered(r)) => issued' = issued ]_vars

\* a request has failed and nothing is in flight afterwards
C6_Witness ==
    /\ ev.op \in {"ProductFail", "AnalyzeFail", "SearchFail", "BarcodeFail"}
    /\ reqs = {}

\* C12: no step takes a request out of flight except the step that handles
\* its answer; when the timer of a barcode lookup fires first, the call ends
\* with the result list empty and loading false (on the page that made the
\* call, if it is still there) and the fetch stays in flight; the answer of
\* that fetch, when it comes, changes nothing but the set of fetches in flight.
C12_TimeoutLeavesFetchInFlight ==
    [][ /\ \A r \in reqs :
              /\ r \notin reqs' => (ev'.run = r.run /\ ev'.id = r.id /\ ev'.op \in
                     {"ProductOk", "ProductFail", "ImageOk", "ImageNone", "AnalyzeOk",
                      "AnalyzeFail", "SearchOk", "SearchFail", "BarcodeOk", "BarcodeFail",
                      "BarcodeTimeout", "BarcodeLate"})
              /\ (ev'.op = "BarcodeTimeout" /\ r \notin reqs') =>
                     /\ r.kind = "barcode" /\ ~r.settled
                     /\ [r EXCEPT !.settled = TRUE] \in reqs'
                     /\ Cardinality(reqs') = Cardinality(reqs)
                     /\ Live(r) => (home'.searchResults = Arr(<<>>) /\ ~home'.loading)
              /\ (r.kind = "barcode" /\ r.settled /\ r \notin reqs') =>
                     /\ ev'.op = "BarcodeLate"
                     /\ <<page, inst, routeId, liveRun, ing, ana, home, cache, fdCache>>'
                          = <<page, inst, routeId, liveRun, ing, ana, home, cache, fdCache>>
                     /\ reqs' = reqs \ {r} ]_vars

\* the answer of a barcode fetch has come after its timeout, on the page that
\* made the lookup: the list is empty, loading is false, the query is the barcode
C12_Witness ==
    /\ ev.op = "BarcodeLate"
    /\ page = "home"
    /\ home.searchResults = Arr(<<>>)
    /\ ~home.loading
    /\ home.searchQuery = ev.id
    /\ home.lastSearchType = "barcode"

\* the entry tryUseCache finds for id: window.__FD_CACHE__ first, then the context cache
CachedFor(id) == IF Truthy(fdCache[id]) THEN fdCache[id] ELSE cache[id]

\* the analysis state s shows cached value c as the claim says, starting from state old
ShownFromCache(s, old, c) ==
    /\ ~s.loading
    /\ s.error = old.error
    /\ c.t = "array" => (s.analysisSections = c /\ s.analysisText = old.analysisText)
    /\ c.t = "string" => (s.analysisText = c /\ s.analysisSections = old.analysisSections)
    /\ (c.t = "response" /\ c.analysis_sections.t = "array")
          => (s.analysisSections = c.analysis_sections /\ s.analysisText = old.analysisText)
    /\ (c.t = "product" \/ (c.t = "response" /\ c.analysis_sections.t # "array"))
          => (s.analysisText = Str(<<"[object Object]">>)
              /\ s.analysisSections = old.analysisSections)

\* C13: a load of the analysis page for an id that has an entry in
\* window.__FD_CACHE__ or, failing that, in the context cache issues no
\* request and sets loading to false; an array entry becomes the sections, a
\* string entry the text, and of an object entry the analysis_sections array
\* becomes the sections if there is one, else the object's string conversion
\* becomes the text.  The same holds of tryUseCache's branches at every load
\* for every shape of value, stored by the pages or not.
C13_AnalysisCacheFirst ==
    [][ /\ \A id \in Ids :
              (AnaLoadStep(id) /\ (Truthy(fdCache[id]) \/ Truthy(cache[id]))) =>
                  /\ reqs' = reqs /\ issued' = issued
                  /\ ShownFromCache(ana', IF ev'.op = "MountAnalysis" THEN AnaInit ELSE ana,
                                    CachedFor(id))
        /\ (\E id \in Ids : AnaLoadStep(id)) =>
              \A id \in Ids : \A c \in {v \in AnalyzeBodies(id) \cup ProductBodies(id) \cup {Arr(<<>>)} : Truthy(v)} :
                 ShownFromCache(UseCached(ana, c), ana, c) ]_vars

\* the analysis page has just been loaded from a stored sections array
C13_Witness ==
    /\ ev.op \in {"MountAnalysis", "RerunAnalysis"}
    /\ page = "analysis"
    /\ fdCache[routeId].t = "array"
    /\ Len(fdCache[routeId].items) > 0
    /\ ana.analysisSections = fdCache[routeId]
    /\ ~ana.loading
    /\ \A r \in reqs : r.run # ev.run

\* the body of an OK analyze answer carries an analysis_sections array
HasSections(body) == body.t = "response" /\ body.analysis_sections.t = "array"

\* what C14 says of an OK analyze answer with body, handled while mounted, for
\* the bodies with sections and the string bodies, and what it says of the
\* caches and the analysis for the others
OkResponseStoredAndShown(r, body) ==
    /\ ~ana'.loading
    /\ HasSections(body) =>
          /\ ana'.analysisSections = body.analysis_sections
          /\ cache'[r.id] = body.analysis_sections
          /\ fdCache'[r.id] = body.analysis_sections
    /\ body.t = "string" =>
          /\ ana'.analysisText = body
          /\ cache'[r.id] = body
          /\ fdCache'[r.id] = body
    /\ (~HasSections(body) /\ body.t # "string") =>
          /\ cache' = cache /\ fdCache' = fdCache
          /\ ana'.analysisText = ana.analysisText
          /\ ana'.analysisSections = ana.analysisSections
          /\ (~Truthy(ana.analysisText) /\ ana.analysisSections = Arr(<<>>))
                => AnaView' = "failed"

\* C14 (as claimed): an OK analyze answer handled while mounted: sections are
\* set and stored in both caches, a string is set as text and stored in both,
\* and any other body stores nothing and shows nothing: the page ends in the
\* failed state, and error, null before, is still null.
C14_OkResponseHandling ==
    [][\A r \in reqs :
          (Answered(r) /\ ev'.op = "AnalyzeOk" /\ Mounted(r) /\ Live(r)) =>
              /\ OkResponseStoredAndShown(r, ev'.val)
              /\ (~HasSections(ev'.val) /\ ev'.val.t # "string" /\ ana.error = NoneV)
                    => ana'.error = NoneV ]_vars

\* C14 (amended): as claimed, except that error stays as it was only for a
\* body that is not null; for the body null the handler throws on reading
\* analysis_sections and error is set to the message of that TypeError.
C14_OkResponseNullThrows ==
    [][\A r \in reqs :
          (Answered(r) /\ ev'.op = "AnalyzeOk" /\ Mounted(r) /\ Live(r)) =>
              /\ OkResponseStoredAndShown(r, ev'.val)
              /\ (~HasSections(ev'.val) /\ ev'.val.t \notin {"string", "null"})
                    => ana'.error = ana.error
              /\ ev'.val = NoneV
                    => (ana'.error = Str(<<"Cannot read properties of null">>)
                        /\ AnaView' = "failed") ]_vars

\* an OK answer with the body null has been handled on a fresh analysis page:
\* failed state, error set, nothing stored
C14_Witness ==
    /\ ev.op = "AnalyzeOk"
    /\ ev.val = NoneV
    /\ page = "analysis" /\ liveRun = ev.run
    /\ ana.error # NoneV
    /\ ~ana.loading
    /\ AnaView = "failed"
    /\ cache[ev.id] = NoneV /\ fdCache[ev.id] = NoneV

\* the step issues an image lookup for id
ImageIssued(id) == \E q \in reqs' \ reqs : q.kind = "image" /\ q.id = id

\* from value v to value w nothing but image_url has changed
OnlyImageChanged(v, w) ==
    IF v.t = "product" THEN w.t = "product" /\ w.id = v.id ELSE w.of = v

\* the answer of an image lookup leaves everything but the data's image_url
ImageAnswerFrame ==
    \A r \in reqs :
       (Answered(r) /\ r.kind = "image") =>
          /\ ev'.op \in {"ImageOk", "ImageNone"}
          /\ ing'.loading = ing.loading /\ ing'.error = ing.error
          /\ ing'.data = ing.data \/ OnlyImageChanged(ing.data, ing'.data)
          /\ <<page, routeId, ana, home, cache, fdCache>>' = <<page, routeId, ana, home, cache, fdCache>>
          /\ IngView' = IngView
          /\ ev'.op = "ImageNone" => ing' = ing

\* C18 (as claimed): a successful product fetch is followed by a request to
\* Open Food Facts if and only if the response has no image_url and the id is
\* all digits; the answer of that request changes at most the image_url of
\* the data, and a failure or an answer without an image changes nothing and
\* does not bring up the error panel.
C18_ImageFetchedOnlyIfMissing ==
    [][ /\ \A r \in reqs :
              (Answered(r) /\ ev'.op = "ProductOk")
                 => (ImageIssued(r.id) <=> (ev'.val.image_url = <<>> /\ IsDigits(r.id)))
        /\ ImageAnswerFrame ]_vars

\* C18 (amended): the same for a successful product fetch answered while the
\* effect run that issued it is the mounted one; an answer that comes after
\* the cleanup of that run is followed by no request.
C18_ImageFetchedIfMissingWhileMounted ==
    [][ /\ \A r \in reqs :
              (Answered(r) /\ ev'.op = "ProductOk")
                 => (ImageIssued(r.id)
                       <=> (Mounted(r) /\ ev'.val.image_url = <<>> /\ IsDigits(r.id)))
        /\ ImageAnswerFrame ]_vars

\* the image lookup of a product fetched without image_url has been answered:
\* the product shown has the image and its other fields
C18_Witness ==
    /\ ev.op = "ImageOk"
    /\ page = "ingredients"
    /\ IsDigits(ev.id)
    /\ ing.data = Product(ev.id, OffImage(ev.id))
    /\ cache[ev.id] = Product(ev.id, <<>>)
    /\ IngView = "product"

\* C19: a successful text search stores its product list under
\* 'lastSearchResults'; when Home mounts with that entry present and
\* 'lastQuery' unset or equal to the query, the result list becomes the stored
\* list and hasSearched true, and no request is issued; a failed search and
\* every step of a barcode search leave the stored list as it is.
C19_SearchResultsRestored ==
    [][ /\ \A r \in reqs :
              /\ (Answered(r) /\ ev'.op = "SearchOk")
                    => (cache'[LastSearchResults] = OrEmpty(ev'.val)
                        /\ ev'.val \in SearchBodies(r.id))
              /\ (Answered(r) /\ (ev'.op = "SearchFail" \/ r.kind = "barcode"))
                    => cache'[LastSearchResults] = cache[LastSearchResults]
        /\ (ev'.op = "BarcodeSearch" /\ ev'.run = runCtr + 1)
              => cache'[LastSearchResults] = cache[LastSearchResults]
        /\ (/\ ev'.op = "MountHome" /\ ev'.run = runCtr + 1
            /\ Truthy(cache[LastSearchResults])
            /\ cache[LastQuery] \in {NoneV, Str(HomeInit.searchQuery)})
              => (/\ home'.searchResults = cache[LastSearchResults]
                  /\ home'.hasSearched
                  /\ reqs' = reqs /\ issued' = issued
                  /\ cache' = cache) ]_vars

\* Home has been mounted again after a search that found products: the list
\* found is shown again
C19_Witness ==
    /\ ev.op = "MountHome"
    /\ page = "home"
    /\ cache[LastSearchResults] # NoneV
    /\ Len(cache[LastSearchResults].items) > 0
    /\ home.searchResults = cache[LastSearchResults]
    /\ home.hasSearched
    /\ ~home.loading

\* the analysis state holds nothing but what the analyze endpoint answers for id
FromAnalyzeEndpoint(s, id) ==
    /\ \/ s.analysisSections = AnaInit.analysisSections
       \/ \E body \in AnalyzeBodies(id) :
             HasSections(body) /\ s.analysisSections = body.analysis_sections
    /\ \/ s.analysisText = AnaInit.analysisText
       \/ \E body \in AnalyzeBodies(id) : body.t = "string" /\ s.analysisText = body

\* C22 (as claimed): the analysis page never takes as its analysis a value the
\* ingredients page stored, and the ingredients page never takes as product
\* data what the analysis page stored: whenever the analysis page shows an
\* analysis for id, it came from the analyze endpoint for id, and whenever
\* the ingredients page shows a product, it is a product.
C22_CacheConsumedByProducer ==
    /\ (page = "analysis" /\ AnaView = "analysis") => FromAnalyzeEndpoint(ana, routeId)
    /\ (page = "ingredients" /\ IngView = "product") => ing.data.t = "product"

\* the analysis page was loaded for an id whose entry the ingredients page
\* stored: no request was issued and the product's string conversion is shown
C22_Witness ==
    /\ page = "analysis"
    /\ ev.op = "MountAnalysis"
    /\ fdCache[routeId] \in ProductBodies(routeId)
    /\ cache[routeId] \in ProductBodies(routeId)
    /\ ana.analysisText = ObjectString
    /\ AnaView = "analysis"
    /\ \A r \in reqs : r.kind # "analyze"

\* the ingredients page was loaded for an id whose entry the analysis page
\* stored: no request was issued and the sections array is the product data
C22_WitnessIngredients ==
    /\ page = "ingredients"
    /\ ev.op = "MountIngredients"
    /\ cache[routeId].t = "array"
    /\ ing.data = cache[routeId]
    /\ IngView = "product"
    /\ \A r \in reqs : r.kind # "product"

-----------------------------------------------------------------------------
(* Properties of parseAnalysisText *)

\* the order the claim fixes
TitleOrder == <<"Summary", "Key Risks", "Positive Highlights", "Recommendation",
                "Marketing Traps">>

TitleHeader == <<"SUMMARY", "KEY RISKS", "POSITIVE HIGHLIGHTS", "RECOMMENDATION",
                 "MARKETING TRAPS">>

\* position of a title in the fixed order (0: not one of the five)
TitleIndex(title) ==
    IF \E k \in 1..Len(TitleOrder) : TitleOrder[k] = title
    THEN CHOOSE k \in 1..Len(TitleOrder) : TitleOrder[k] = title ELSE 0

\* C7: the sections returned are titled by the five names in the fixed order
\* Summary, Key Risks, Positive Highlights, Recommendation, Marketing Traps
\* whatever their order in the text, each at most once; a title is present
\* exactly when its header occurs in the text and the content captured for it
\* is not empty after trimming, and then the section holds that trimmed
\* content; a text without any of the five headers gives the empty list.
C7_FixedOrderOfSections ==
    parsed =>
        /\ \A i \in 1..Len(sections) : TitleIndex(sections[i].title) > 0
        /\ \A i, j \in 1..Len(sections) :
              i < j => TitleIndex(sections[i].title) < TitleIndex(sections[j].title)
        /\ \A k \in 1..Len(TitleOrder) :
              LET occurs == \E i \in 1..Len(text) : text[i] = TitleHeader[k]
                  m == Match(text, TitleHeader[k])
              IN /\ m.found <=> occurs
                 /\ (\E i \in 1..Len(sections) : sections[i].title = TitleOrder[k])
                       <=> (occurs /\ Trim(m.content) # <<>>)
                 /\ \A i \in 1..Len(sections) :
                       sections[i].title = TitleOrder[k] => sections[i].content = Trim(m.content)
        /\ (\A i \in 1..Len(text) : text[i] \notin {TitleHeader[k] : k \in 1..5})
              => sections = <<>>

\* two sections whose headers stand in the text in the opposite order
C7_Witness ==
    /\ parsed
    /\ Len(sections) = 2
    /\ sections[1].title = "Summary" /\ sections[2].title = "Key Risks"
    /\ \E i, j \in 1..Len(text) : i < j /\ text[i] = "KEY RISKS" /\ text[j] = "SUMMARY"

\* position i of content c is the start of a line: the start of c, or only
\* whitespace lies between a line break and i
LineStart(c, i) ==
    \/ i = 1
    \/ \E j \in 1..(i - 1) : c[j] = "\n" /\ \A k \in (j + 1)..(i - 1) : c[k] \in Space

\* C16 (as claimed): no section returned has in its content a line that
\* begins with one of the six headers.
C16_ContentStopsAtHeaders ==
    parsed =>
       \A n \in 1..Len(sections) : \A i \in 1..Len(sections[n].content) :
          sections[n].content[i] \in NextHeader => ~LineStart(sections[n].content, i)

\* C16 (what the lookahead does give): no section returned has in its content
\* a line break followed, after optional whitespace, by one of the six headers.
C16_StopsAtLineBreakBeforeHeader ==
    parsed =>
       \A n \in 1..Len(sections) : \A i \in 2..Len(sections[n].content) :
          sections[n].content[i] \in NextHeader
             => ~(\E j \in 1..(i - 1) : sections[n].content[j] = "\n"
                    /\ \A k \in (j + 1)..(i - 1) : sections[n].content[k] \in Space)

\* an empty Summary followed by the Key Risks line: the Summary returned holds
\* the Key Risks line
C16_Witness ==
    /\ parsed
    /\ text = <<"SUMMARY", "\n", "KEY RISKS", "w">>
    /\ Len(sections) = 2
    /\ sections[1].title = "Summary"
    /\ sections[1].content = <<"KEY RISKS", "w">>
    /\ sections[2].title = "Key Risks"

-----------------------------------------------------------------------------
(* Properties of the entrypoint *)

\* C8: once both children have been launched and one of them has exited, the
\* script reaches its end having sent the kill to both, with neither child
\* running: it does not go on with one service alive.  (A script terminated by
\* a signal that arrived before its trap was set does not get that far.)
C8_Supervises ==
    (Len(launched) = 2 /\ \E c \in Children : proc[c] = "exited")
        ~> (\/ pc = "exited" /\ killed = Children /\ \A c \in Children : ~Alive(c)
            \/ pc = "killed")

\* the script has ended after one child exited and the other was stopped by the
\* kill, without any signal
C8_Witness ==
    /\ pc = "exited"
    /\ sigs = 0
    /\ killed = Children
    /\ \E c, d \in Children : proc[c] = "exited" /\ proc[d] = "stopped"

\* C9 (as claimed): a TERM, INT or QUIT that the script receives once a child
\* has been launched makes it call cleanup (the kill is sent to both children),
\* and the script has ended only with status 0 and with no child running.
C9_GracefulShutdown ==
    /\ [][(sigs' = sigs + 1 /\ launched # <<>>) => pc' = "kill"]_vars
    /\ []((pc \in {"exited", "killed"} /\ launched # <<>>)
            => (status = 0 /\ \A c \in Children : ~Alive(c)))

\* C9 (from line 45 on): a TERM, INT or QUIT taken by the trap makes the script
\* call cleanup: the kill is sent to both children, the script then reaches
\* its exit, and it has exited only with status 0, the kill sent to both and
\* no child running.
C9_TrappedSignalShutsDown ==
    /\ [][(sigs' = sigs + 1 /\ trapSet) => pc' = "kill"]_vars
    /\ (pc = "kill") ~> (pc = "exited")
    /\ [](pc = "exited" => (status = 0 /\ killed = Children /\ \A c \in Children : ~Alive(c)))

\* the script was terminated by a signal during its start: Next.js is running,
\* no kill was sent
C9_Witness ==
    /\ pc = "killed"
    /\ sigs = 1
    /\ status # 0
    /\ killed = {}
    /\ Alive("frontend")

\* C10 (as claimed): Next.js is started on 3000 whatever PORT is, uvicorn on
\* PORT, or on 8000 when PORT is unset, and Next.js is launched first.
C10_PortsAsClaimed ==
    /\ proc["frontend"] # "none" => port["frontend"] = <<"3000">>
    /\ proc["backend"] # "none" =>
          port["backend"] = (IF env = NoneV THEN <<"8000">> ELSE env.s)
    /\ launched \in {<<>>, <<"frontend">>, <<"frontend", "backend">>}

\* C10 (amended): Next.js is started on 3000 whatever PORT is, uvicorn on
\* PORT, or on 8000 when PORT is unset or empty, and Next.js is launched first.
C10_PortsUnsetOrEmpty ==
    /\ proc["frontend"] # "none" => port["frontend"] = <<"3000">>
    /\ proc["backend"] # "none" =>
          port["backend"] = (IF env = NoneV \/ env = Str(<<>>) THEN <<"8000">> ELSE env.s)
    /\ launched \in {<<>>, <<"frontend">>, <<"frontend", "backend">>}

\* both are started with PORT set to the empty string
C10_Witness ==
    /\ launched = <<"frontend", "backend">>
    /\ env = Str(<<>>)
    /\ port["frontend"] = <<"3000">>
    /\ port["backend"] = <<"8000">>

\* C23 (as claimed): a script that has ended without having received a signal
\* (a child exited on its own) has a non-zero exit status, and exit status 0
\* is produced only when a signal was received.
C23_UnexpectedExitFails ==
    /\ (pc = "exited" /\ sigs = 0) => status # 0
    /\ status = 0 => sigs > 0

\* C23 (every exit through cleanup): a script that has ended through cleanup
\* has exit status 0 whether or not a signal was received, and a script that
\* ended with another status was terminated by a signal it had no trap for.
C23_CleanupExitsZero ==
    /\ pc = "exited" => status = 0
    /\ pc = "killed" => (sigs > 0 /\ ~trapSet /\ \E sig \in Signals : status = 128 + sig.no)
    /\ pc \notin {"exited", "killed"} => status = -1

\* the script has ended with status 0 after a child exited on its own, without
\* any signal
C23_Witness ==
    /\ pc = "exited"
    /\ sigs = 0
    /\ status = 0
    /\ \E c \in Children : proc[c] = "exited"

\* the children launched so far
Launched == {launched[i] : i \in 1..Len(launched)}

\* C24 (as claimed): when the script has ended after a TERM, INT or QUIT was
\* delivered to it, every child launched so far was sent the kill and none of
\* them is running, at whatever moment after the first launch the signal
\* arrived.
C24_SignalKillsLaunched ==
    (pc \in {"exited", "killed"} /\ sigs > 0)
        => \A c \in Launched : c \in killed /\ ~Alive(c)

\* C24 (from line 45 on): a script that has ended with its trap set has sent
\* the kill to every child launched and none of them is running; a script
\* terminated by a signal before its trap was set has sent the kill to none.
C24_KilledOnceTrapSet ==
    /\ (pc \in {"exited", "killed"} /\ trapSet)
          => \A c \in Launched : c \in killed /\ ~Alive(c)
    /\ pc = "killed" => (~trapSet /\ killed = {})

\* the script was terminated by a signal that arrived in the pause between the
\* two launches: uvicorn was never started, Next.js runs on with no kill sent
C24_Witness ==
    /\ pc = "killed"
    /\ sigs = 1
    /\ ~trapSet
    /\ launched = <<"frontend">>
    /\ proc["backend"] = "none"
    /\ Alive("frontend")
    /\ "frontend" \notin killed

\* C25 (as claimed): once both children have been started, the port passed to
\* uvicorn differs from the port Next.js listens on, whatever PORT is.
C25_PortsDiffer ==
    (proc["frontend"] # "none" /\ proc["backend"] # "none")
        => port["backend"] # port["frontend"]

\* C25 (PORT other than 3000): once both children have been started, the port
\* passed to uvicorn differs from the port of Next.js when PORT is unset, empty
\* or a port other than 3000, and is the port of Next.js when PORT is 3000.
C25_PortsDifferUnless3000 ==
    (proc["frontend"] # "none" /\ proc["backend"] # "none")
        => (port["backend"] = port["frontend"] <=> env = Str(INTERNAL_FRONTEND_PORT))

\* both children have been started with PORT=3000: uvicorn was given the port
\* Next.js listens on
C25_Witness ==
    /\ launched = <<"frontend", "backend">>
    /\ env = Str(<<"3000">>)
    /\ port["backend"] = <<"3000">>
    /\ port["frontend"] = <<"3000">>

-----------------------------------------------------------------------------
(* Properties of lib/config *)

\* inverse of the escapes of encodeURIComponent
RECURSIVE Decode(_)
Decode(s) ==
    IF s = <<>> THEN <<>>
    ELSE <<IF Head(s) = "%20" THEN " " ELSE IF Head(s) = "%26" THEN "&"
           ELSE IF Head(s) = "%0A" THEN "\n" ELSE Head(s)>> \o Decode(Tail(s))

\* the part of url after its first n tokens
After(url, n) == SubSeq(url, n + 1, Len(url))

\* C11: every backend fetch has the listed method and URL: search is GET
\* BASE/api/v1/search?q= followed by the query with its reserved characters
\* escaped, product is GET BASE/api/v1/product/id, analysis is POST
\* BASE/api/v1/analyze/product/id, barcode is GET BASE/api/v1/barcode/code;
\* and getApiUrl returns BASE, the endpoint's path, and '/' and path exactly
\* when path is a non-empty string.
C11_EndpointsAndUrls ==
    LET BASE == GetBaseUrl(window, apiEnv) IN
    /\ fetched # NoneV =>
         /\ fetched.kind = "search" =>
               /\ fetched.method = "GET"
               /\ SubSeq(fetched.url, 1, Len(BASE) + 2) = BASE \o <<"/api/v1/search", "?q=">>
               /\ \A i \in Len(BASE) + 3 .. Len(fetched.url) :
                     fetched.url[i] \notin {" ", "&", "\n"}
               /\ Decode(After(fetched.url, Len(BASE) + 2)) = fetched.arg
         /\ fetched.kind = "product" =>
               (fetched.method = "GET"
                /\ fetched.url = BASE \o <<"/api/v1/product", "/">> \o fetched.arg)
         /\ fetched.kind = "analyze" =>
               (fetched.method = "POST"
                /\ fetched.url = BASE \o <<"/api/v1/analyze/product", "/">> \o fetched.arg)
         /\ fetched.kind = "barcode" =>
               (fetched.method = "GET"
                /\ fetched.url = BASE \o <<"/api/v1/barcode", "/">> \o fetched.arg)
    /\ built # NoneV =>
         built.url = BASE \o ENDPOINTS[built.endpoint]
                        \o (IF built.path # NoneV /\ built.path.s # <<>>
                            THEN <<"/">> \o built.path.s ELSE <<>>)

\* a search for a query with a blank has been fetched, and getApiUrl has been
\* called without a path, with a backend URL configured
C11_Witness ==
    /\ fetched # NoneV /\ fetched.kind = "search" /\ fetched.arg = <<"a", " ", "b">>
    /\ built # NoneV /\ built.path = NoneV
    /\ TruthyStr(apiEnv)

\* the URL of getApiUrl for a base URL, as C11 has it
UrlOn(base, endpoint, path) ==
    base \o ENDPOINTS[endpoint]
         \o (IF path # NoneV /\ path.s # <<>> THEN <<"/">> \o path.s ELSE <<>>)

\* C21 (as claimed): the base URL a call of getApiUrl reads is, in a browser,
\* empty when NEXT_PUBLIC_API_URL is unset or empty and the variable's value
\* when it is set; outside a browser it is the variable's value or, when
\* the variable is unset, http://127.0.0.1:8000; and the URL returned is
\* fixed by the environment and the arguments.
C21_BaseUrl ==
    built # NoneV =>
       /\ window =>
             built.base = (IF apiEnv = NoneV \/ apiEnv = Str(<<>>) THEN <<>> ELSE apiEnv.s)
       /\ ~window =>
             built.base = (IF apiEnv = NoneV THEN <<"http://127.0.0.1:8000">> ELSE apiEnv.s)
       /\ built.url = UrlOn(built.base, built.endpoint, built.path)

\* C21 (amended): outside a browser the base URL is the variable's value when
\* it is set and not empty, and http://127.0.0.1:8000 when it is unset or
\* empty; the rest as claimed.
C21_BaseUrlEmptyIsUnset ==
    built # NoneV =>
       /\ window =>
             built.base = (IF apiEnv = NoneV \/ apiEnv = Str(<<>>) THEN <<>> ELSE apiEnv.s)
       /\ ~window =>
             built.base = (IF apiEnv = NoneV \/ apiEnv = Str(<<>>)
                           THEN <<"http://127.0.0.1:8000">> ELSE apiEnv.s)
       /\ built.url = UrlOn(built.base, built.endpoint, built.path)

\* getApiUrl has been called outside a browser with the variable set to the
\* empty string
C21_Witness ==
    /\ built # NoneV
    /\ ~window
    /\ apiEnv = Str(<<>>)
    /\ built.base = <<"http://127.0.0.1:8000">>
    /\ built.path # NoneV /\ built.path.s # <<>>

-----------------------------------------------------------------------------
(* Properties of AnalysisDisplay *)

\* the title the claim gives the entry at position i (index i - 1)
ClaimedTitle(i) ==
    CASE i = 1 -> "Overall Verdict"
      [] i = 2 -> "Summary"
      [] i = 3 -> "Key Risks"
      [] i = 4 -> "Positive Highlights"
      [] i = 5 -> "Recommendation"
      [] i = 6 -> "Marketing Traps"
      [] OTHER -> "Section " \o ToString(i)

\* positions of the non-blank entries of arr
NonBlank(arr) == {i \in 1..Len(arr) : Trim(arr[i]) # <<>>}

\* C15: when some entry of analysisSections is not blank, the sections shown
\* are the non-blank entries in their order, each with the title of its own
\* position (the configured name, or 'Section' and the position beyond the
\* sixth); otherwise they are the sections parsed from analysisText.
C15_SectionsFromArray ==
    shown # NoneV =>
       LET arr == props.sections
           kept == NonBlank(arr)
       IN IF kept # {}
          THEN /\ Len(shown.items) = Cardinality(kept)
               /\ \A i \in kept :
                     LET k == Cardinality({j \in kept : j <= i})
                     IN /\ shown.items[k].content = arr[i]
                        /\ shown.items[k].title = ClaimedTitle(i)
          ELSE shown.items = ParseAnalysisText(props.text)

\* seven entries have been rendered, a blank one among them before the last:
\* the last is shown as 'Section 7'
C15_Witness ==
    /\ shown # NoneV
    /\ Len(props.sections) = 7
    /\ Trim(props.sections[3]) = <<>>
    /\ Trim(props.sections[7]) # <<>>
    /\ Len(shown.items) > 0 /\ Len(shown.items) < 7
    /\ shown.items[Len(shown.items)].title = "Section 7"

-----------------------------------------------------------------------------
(* Properties of extractHealthRating *)

\* the pattern of the rating at position p of txt, with the number n: Rating,
\* colons or whitespace, n, then /10 after optional whitespace
Occurrence(txt, p, n) ==
    /\ txt[p] \in RatingWords
    /\ \E k \in (p + 2)..Len(txt) :
          /\ \A j \in (p + 1)..(k - 1) : txt[j] \in Space \cup {":"}
          /\ txt[k] = n
          /\ \E e \in (k + 1)..Len(txt) :
                txt[e] = "/10" /\ \A j \in (k + 1)..(e - 1) : txt[j] \in Space

HasRating(txt) == \E p \in 1..Len(txt) : \E n \in Numbers : Occurrence(txt, p, n)

\* the number of the first occurrence, in tenths
FirstScore(txt) ==
    LET p == CHOOSE q \in 1..Len(txt) :
                /\ \E n \in Numbers : Occurrence(txt, q, n)
                /\ \A r \in 1..(q - 1) : \A n \in Numbers : ~Occurrence(txt, r, n)
    IN IF Occurrence(txt, p, "7") THEN 70 ELSE 75

HasVerdictHeader(txt) == \E p \in 1..Len(txt) : txt[p] = "OVERALL VERDICT"

\* position after the first OVERALL VERDICT and its optional colon
AfterVerdictHeader(txt) ==
    LET p == CHOOSE q \in 1..Len(txt) :
                txt[q] = "OVERALL VERDICT" /\ \A r \in 1..(q - 1) : txt[r] # "OVERALL VERDICT"
    IN IF p + 1 <= Len(txt) /\ txt[p + 1] = ":" THEN p + 2 ELSE p + 1

\* the tokens of txt from position i to the end of the line of i
RestOfLine(txt, i) ==
    LET e == CHOOSE k \in i..(Len(txt) + 1) :
                /\ k = Len(txt) + 1 \/ txt[k] = "\n"
                /\ \A j \in i..(k - 1) : txt[j] # "\n"
    IN SubSeq(txt, i, e - 1)

\* the verdict as claimed: the trimmed rest of the line of the header
ClaimedVerdict(txt) ==
    IF HasVerdictHeader(txt) THEN Trim(RestOfLine(txt, AfterVerdictHeader(txt))) ELSE <<>>

\* C17 (as claimed): extractHealthRating returns a rating exactly when the text
\* (the argument converted to a string) has Rating, a colon or whitespace, a
\* number N and /10; the score is the N of the first occurrence and the
\* verdict is the trimmed rest of the line after OVERALL VERDICT, or empty
\* without that header; otherwise it returns null.
C17_ExtractHealthRating ==
    rating # Pending =>
       IF HasRating(RatingText(arg))
       THEN rating = [t |-> "rating",
                      score |-> FirstScore(RatingText(arg)),
                      verdict |-> ClaimedVerdict(RatingText(arg))]
       ELSE rating = NoneV

\* C17 (what the code gives): the rating is returned exactly in the claimed
\* case, with the score of the first occurrence; the verdict is empty without
\* the header, the trimmed line of the first token that is no whitespace after
\* the header and its colon (on the line of the header or on a later one),
\* a colon when only line breaks follow the header's colon, and empty when
\* only whitespace follows otherwise.
C17_RatingAndVerdictFound ==
    rating # Pending =>
       LET txt == RatingText(arg) IN
       /\ rating = NoneV <=> ~HasRating(txt)
       /\ HasRating(txt) =>
             /\ rating.score = FirstScore(txt)
             /\ ~HasVerdictHeader(txt) => rating.verdict = <<>>
             /\ HasVerdictHeader(txt) =>
                   LET a == AfterVerdictHeader(txt)
                       rest == SubSeq(txt, a, Len(txt))
                       x == a + (Len(rest) - Len(TrimLeft(rest)))
                   IN /\ x <= Len(txt) => rating.verdict = Trim(RestOfLine(txt, x))
                      /\ (txt[a - 1] = ":" /\ \A j \in a..Len(txt) : txt[j] = "\n")
                            => rating.verdict = <<":">>
                      /\ (x > Len(txt) /\ ~(txt[a - 1] = ":" /\ \A j \in a..Len(txt) : txt[j] = "\n"))
                            => rating.verdict = <<>>

\* a rating followed by the header, its colon and nothing else: the verdict
\* returned is the colon
C17_Witness ==
    /\ arg = Str(<<"Rating", ":", "7", "/10", "\n", "OVERALL VERDICT", ":">>)
    /\ rating # Pending
    /\ rating # NoneV
    /\ rating.score = 70
    /\ rating.verdict = <<":">>

-----------------------------------------------------------------------------
(* Properties of LoadingAnimation *)

\* progress and stage in every state: progress never decreases and never
\* exceeds 100; the stage moves forward by one per callback of stageInterval
\* and stays at the last stage
ProgressAndStageBounded ==
    /\ 0 <= was.progress /\ was.progress <= progress /\ progress <= Percent(100)
    /\ was.currentStage <= currentStage /\ currentStage <= was.currentStage + 1
    /\ currentStage = IF stageTicks < Len(AnalysisStages) - 1
                      THEN stageTicks ELSE Len(AnalysisStages) - 1

\* C20 (as claimed): progress starts at 0, grows by one fixed step per tick
\* of 100 ms and first equals 100 at tick 300 (30 seconds); it never
\* decreases and never exceeds 100; the stage index moves forward by one per
\* stage tick and stays at the last stage.
C20_ProgressFullAtTick300 ==
    /\ ticks = 0 => progress = 0
    /\ progress = Percent(100) <=> ticks >= 300
    /\ ProgressAndStageBounded

\* C20 (what the code gives): the same with the step 100 / 320: progress is
\* ticks * 100 / 320 up to tick 320, where it first equals 100 (32 seconds),
\* and 100 from there on.
C20_ProgressFullAtTick320 ==
    /\ progress = IF ticks < 320 THEN (ticks * Percent(100)) \div 320 ELSE Percent(100)
    /\ progress = Percent(100) <=> ticks >= 320
    /\ ProgressAndStageBounded

\* tick 300 has passed and the bar is not full; the last stage is reached
C20_Witness ==
    /\ ticks = 300
    /\ progress < Percent(100)
    /\ currentStage = Len(AnalysisStages) - 1
    /\ stageTicks > Len(AnalysisStages) - 1

====
